---- MODULE Spec2Model ----
(***************************************************************************)
(* A model of the guh_quant allocation pipeline: the polling loop of       *)
(* main.rs, the eligibility filter and allocation engine of portfolio.rs,  *)
(* the monthly price lookup of stocks.rs and the pre-submission validator  *)
(* of main.rs.                                                             *)
(*                                                                         *)
(* Number representation.  The program computes in f64; the model computes *)
(* in exact integer arithmetic:                                            *)
(*   - prices, costs and budgets are whole currency units;                 *)
(*   - volatility is in thousandths (0.03 is 30);                          *)
(*   - returns are whole percent, (end - start) * 100 \div start;          *)
(*   - market capitalisation is in units of 10^9;                          *)
(*   - a fraction of the budget is compared after cross-multiplying, so    *)
(*     budget * 0.5 and budget * (1 - 0.03) are never rounded.             *)
(* Option<T> is a record [some, val]; a ticker is a sequence of one        *)
(* character strings, so that "contains a character" is computed.          *)
(***************************************************************************)
EXTENDS Integers, Sequences, FiniteSets, TLC

VARIABLES
    pc,              \* position of main's loop
    stock_metadata,  \* Vec<Stock> loaded by prefetch_all_stocks, once
    monthly_cache,   \* MONTHLY_PRICES_CACHE (some, entries), HISTORICAL_PERIODS_CACHE (periods)
    attempt,         \* get_context: number of the running attempt, 1..3
    profile,         \* the InvestorProfile of the running cycle
    all_stocks,      \* the cycle's clone of stock_metadata, derived fields filled
    eligible_stocks, \* filter_stocks_by_profile's result
    portfolio,       \* build_portfolio's result
    cleaned,         \* pre_submit_validate's result
    posts,           \* POSTs to /submit made for the brief in hand
    send_result,     \* the outcome of send_portfolio
    rejected,        \* contents of rejected_tickers.txt, a set of tickers
    trace,           \* what the cycle appended to request_trace.jsonl
    exit_error,      \* the Err main returned, "" while it runs
    named,           \* history: the tickers T of "invalid ticker type: T" so far
    files,           \* the files of the learning store, by path
    ps,              \* the PointsStore in memory: scores and last_updated
    now,             \* the clock, in whole days since the epoch
    history          \* history: what the calls on the store have done so far

\* The variables of the learning store
points_vars == <<files, ps, now, history>>

\* The variables of a cycle of main
cycle_vars == <<stock_metadata, monthly_cache, attempt, profile, all_stocks,
                eligible_stocks, portfolio, cleaned, posts, send_result,
                rejected, trace, exit_error, named>>

vars == <<pc, cycle_vars, points_vars>>

-----------------------------------------------------------------------------
(* Option and sequence helpers                                             *)

None == [some |-> FALSE, val |-> 0]

\* PointsStore { scores: HashMap::new(), last_updated: 0 }
EmptyStore == [scores |-> <<>>, last_updated |-> 0]

\* A path without a file.  A file is [kind, scores, last_updated]; its kind
\* says what a reader finds: "none" no file, "store" the structured format,
\* "legacy" the map-only format, "garbage" text that is no JSON, "partial" a
\* proper prefix of a serialization.
NoFile == [kind |-> "none", scores |-> <<>>, last_updated |-> 0]

\* The path of the store and the path of its temporary file
StorePath == "points_store.json"
StoreTmpPath == "points_store.json.tmp"

NoFiles == [path \in {StorePath, StoreTmpPath} |-> NoFile]

\* No call on the store yet
NoHistory ==
    [fresh |-> TRUE, touched |-> {}, before |-> NoFiles,
     learn |-> [some |-> FALSE, phrases |-> {}, points |-> 0, p |-> <<>>,
                loaded |-> EmptyStore],
     last |-> "", ops |-> 0]


Some(v) == [some |-> TRUE, val |-> v]

Max(a, b) == IF a >= b THEN a ELSE b

Min(a, b) == IF a <= b THEN a ELSE b

RECURSIVE SumSeq(_)
SumSeq(s) == IF s = <<>> THEN 0 ELSE Head(s) + SumSeq(Tail(s))

\* Vec::remove(idx), idx counted from 1
RemoveAt(s, idx) == SubSeq(s, 1, idx - 1) \o SubSeq(s, idx + 1, Len(s))

\* s.iter().take(n).collect()
Take(s, n) == SubSeq(s, 1, Min(n, Len(s)))

\* slice::sort_by: a stable sort, Less(a, b) is "cmp(a, b) == Ordering::Less".
\* The element at index i lands behind every element less than it and behind
\* every element equal to it that stood before it.
SortBy(s, Less(_, _)) ==
    LET n == Len(s)
        Before(j, i) == \/ Less(s[j], s[i])
                        \/ (~Less(s[i], s[j]) /\ j < i)
        Rank(i) == Cardinality({j \in 1..n : j # i /\ Before(j, i)}) + 1
    IN  IF n = 0 THEN <<>>
        ELSE [k \in 1..n |-> s[CHOOSE i \in 1..n : Rank(i) = k]]

\* str::contains(char)
TickerContains(t, c) == \E i \in 1..Len(t) : t[i] = c

\* stocks.iter().find(|s| s.ticker == t): index of the first match, 0 if none
FindStock(stocks, t) ==
    IF \E i \in 1..Len(stocks) : stocks[i].ticker = t
    THEN CHOOSE i \in 1..Len(stocks) :
            /\ stocks[i].ticker = t
            /\ \A j \in 1..(i - 1) : stocks[j].ticker # t
    ELSE 0

-----------------------------------------------------------------------------
(* Stock                                                                   *)

\* A slip get_current_price could make: it answers as get_purchase_price does
GetCurrentPrice_Purchase(s) ==
    IF s.historical_start_price.some THEN s.historical_start_price.val
    ELSE s.price

\* Stock::get_current_price
GetCurrentPrice(s) == s.price

\* Stock::get_purchase_price
GetPurchasePrice(s) ==
    IF s.historical_start_price.some THEN s.historical_start_price.val
    ELSE s.price

\* historical_return.map_or(false, |r| r < 0.0)
HasNegativeReturn(s) == s.historical_return.some /\ s.historical_return.val < 0

-----------------------------------------------------------------------------
(* portfolio.rs: configuration                                             *)

\* RANK_QUANTITIES
RANK_QUANTITIES == <<50, 20, 15, 10, 8, 6, 5, 4, 3, 2, 1, 1, 1, 1, 1>>

\* MAX_POSITIONS
MAX_POSITIONS == 12

\* BUDGET_SPEND_FRACTION = 0.5, in percent
BUDGET_SPEND_PCT == 50

\* max_iterations of the greedy round robin
MAX_ITERATIONS == 10000

-----------------------------------------------------------------------------
(* portfolio.rs: cost and budget repair                                    *)

\* calculate_portfolio_cost
CalculatePortfolioCost(p, stocks) ==
    SumSeq([i \in 1..Len(p) |->
              LET k == FindStock(stocks, p[i].ticker)
              IN  IF k # 0 THEN GetCurrentPrice(stocks[k]) * p[i].qty ELSE 0])

\* validate_budget
ValidateBudget(p, stocks, budget) == CalculatePortfolioCost(p, stocks) <= budget

\* Iterator::max_by_key(qty) over the enumerated positions: the last maximum
MaxQtyIndex(p) ==
    CHOOSE i \in 1..Len(p) :
        /\ \A j \in 1..Len(p) : p[j].qty <= p[i].qty
        /\ \A j \in (i + 1)..Len(p) : p[j].qty < p[i].qty

\* The condition of force_within_budget's loop, and no break taken
ForceRunning(p, stocks, budget) ==
    CalculatePortfolioCost(p, stocks) > budget /\ p # <<>>

\* A slip: the share is taken from the first position, whatever its size
ForceStep_FirstPosition(p, stocks, budget) ==
    IF ~ForceRunning(p, stocks, budget) THEN p
    ELSE LET q == [p EXCEPT ![1].qty = p[1].qty - 1]
         IN  IF q[1].qty = 0 THEN RemoveAt(q, 1) ELSE q

\* A slip: the share is taken from a copy and the allocation stays as it was
ForceStep_OnCopy(p, stocks, budget) == p

\* One turn of force_within_budget's loop; the portfolio is returned as it is
\* when the loop has ended.
ForceStep(p, stocks, budget) ==
    IF ~(CalculatePortfolioCost(p, stocks) > budget) \/ p = <<>> THEN p
    ELSE LET idx == MaxQtyIndex(p)
             q   == [p EXCEPT ![idx].qty = p[idx].qty - 1]
         IN  IF q[idx].qty = 0 THEN RemoveAt(q, idx) ELSE q

\* Up to 2^k turns of the loop, stopping at the first state that ends it.
RECURSIVE ForceLoop(_, _, _, _)
ForceLoop(p, stocks, budget, k) ==
    IF ~(CalculatePortfolioCost(p, stocks) > budget) \/ p = <<>> THEN p
    ELSE IF k = 0 THEN ForceStep(p, stocks, budget)
         ELSE ForceLoop(ForceLoop(p, stocks, budget, k - 1), stocks, budget, k - 1)

\* force_within_budget
ForceWithinBudget(p, stocks, budget) == ForceLoop(p, stocks, budget, 20)

\* "if !validate_budget(..) { force_within_budget(..) }"
EnforceBudget(p, stocks, budget) ==
    IF ~ValidateBudget(p, stocks, budget) THEN ForceWithinBudget(p, stocks, budget)
    ELSE p

-----------------------------------------------------------------------------
(* portfolio.rs: build_greedy_portfolio                                    *)

\* The affordable stocks: the two filters, the sort by price and the truncation.
GreedyAffordable(stocks, budget) ==
    LET keep(s) == GetCurrentPrice(s) <= budget /\ ~HasNegativeReturn(s)
        cheaper(a, b) == GetCurrentPrice(a) < GetCurrentPrice(b)
        sorted == SortBy(SelectSeq(stocks, keep), cheaper)
    IN  IF Len(sorted) > MAX_POSITIONS THEN Take(sorted, MAX_POSITIONS) ELSE sorted

\* One turn of the first pass, at index i: the state it leaves and whether the
\* pass is left by the break.
GreedyFirstPassTurn(aff, i, st) ==
    LET price == GetCurrentPrice(aff[i])
    IN  IF st.remaining_budget >= price /\ price > 0
        THEN IF st.remaining_budget - price < 0
             THEN [st |-> st, break |-> TRUE]
             ELSE [st |-> [st EXCEPT !.shares[i] = 1,
                                     !.remaining_budget = st.remaining_budget - price],
                   break |-> FALSE]
        ELSE [st |-> st, break |-> FALSE]

\* A slip: the first pass ends after its first turn
GreedyFirstPass_OneTurn(aff, i, st) ==
    IF i > Len(aff) THEN st ELSE GreedyFirstPassTurn(aff, i, st).st

\* First pass, from index i on: one share of every stock the budget covers.
RECURSIVE GreedyFirstPass(_, _, _)
GreedyFirstPass(aff, i, st) ==
    IF i > Len(aff) THEN st
    ELSE LET price == GetCurrentPrice(aff[i])
         IN  IF st.remaining_budget >= price /\ price > 0
             THEN IF st.remaining_budget - price < 0
                  THEN st   \* undone, and the pass is left
                  ELSE GreedyFirstPass(aff, i + 1,
                         [st EXCEPT !.shares[i] = 1,
                                    !.remaining_budget = st.remaining_budget - price])
             ELSE GreedyFirstPass(aff, i + 1, st)

\* The condition of the second pass's while loop (and no break taken before).
GreedyRunning(st) ==
    /\ ~st.broke
    /\ st.remaining_budget > 0
    /\ st.safety_counter < MAX_ITERATIONS

\* A slip: the turn buys without the test "remaining_budget >= price" and
\* without the roll-back
GreedyStep_NoAffordTest(aff, st) ==
    IF ~GreedyRunning(st) THEN st
    ELSE
    LET i     == st.stock_index
        price == GetCurrentPrice(aff[i])
        buy   == price > 0
        rem   == IF buy THEN st.remaining_budget - price ELSE st.remaining_budget
    IN  [shares           |-> IF buy THEN [st.shares EXCEPT ![i] = st.shares[i] + 1]
                              ELSE st.shares,
         remaining_budget |-> rem,
         stock_index      |-> (i % Len(aff)) + 1,
         safety_counter   |-> st.safety_counter + 1,
         broke            |-> \A j \in 1..Len(aff) : GetCurrentPrice(aff[j]) > rem]

\* One turn of the second pass (round robin).
GreedyStep(aff, st) ==
    IF ~GreedyRunning(st) THEN st
    ELSE
    LET i     == st.stock_index
        price == GetCurrentPrice(aff[i])
        buy   == st.remaining_budget >= price /\ price > 0
        rem   == IF buy THEN st.remaining_budget - price ELSE st.remaining_budget
        next  == (i % Len(aff)) + 1
    IN  IF buy /\ rem < 0
        THEN \* rolled back, break
             [st EXCEPT !.safety_counter = st.safety_counter + 1, !.broke = TRUE]
        ELSE [shares           |-> IF buy THEN [st.shares EXCEPT ![i] = st.shares[i] + 1]
                                   ELSE st.shares,
              remaining_budget |-> rem,
              stock_index      |-> next,
              safety_counter   |-> st.safety_counter + 1,
              broke            |-> \A j \in 1..Len(aff) : GetCurrentPrice(aff[j]) > rem]

\* No turn from st on can buy or leave the loop: nothing with a positive price
\* is within the remaining budget, and a price <= 0 keeps the test
\* "all(price > remaining_budget)" false.
GreedyIdle(aff, st) ==
    /\ \A j \in 1..Len(aff) :
          ~(st.remaining_budget >= GetCurrentPrice(aff[j]) /\ GetCurrentPrice(aff[j]) > 0)
    /\ \E j \in 1..Len(aff) : GetCurrentPrice(aff[j]) <= st.remaining_budget

\* The turns of an idle loop taken at once: they only count up to
\* max_iterations and move stock_index round.
GreedyIdleRun(aff, st) ==
    LET turns == MAX_ITERATIONS - st.safety_counter
    IN  [st EXCEPT !.safety_counter = MAX_ITERATIONS,
                   !.stock_index = ((st.stock_index - 1 + turns) % Len(aff)) + 1]

\* One turn of the second pass as the model takes it: the turns of an idle
\* loop at once.
GreedyTurn(aff, st) ==
    IF GreedyIdle(aff, st) THEN GreedyIdleRun(aff, st) ELSE GreedyStep(aff, st)

\* Up to 2^k turns of the second pass.
RECURSIVE GreedyLoop(_, _, _)
GreedyLoop(aff, st, k) ==
    IF ~GreedyRunning(st) THEN st
    ELSE IF k = 0
         THEN GreedyTurn(aff, st)
         ELSE GreedyLoop(aff, GreedyLoop(aff, st, k - 1), k - 1)

\* The state of the allocation before the first pass.
GreedyStart(aff, budget) ==
    [shares           |-> [i \in 1..Len(aff) |-> 0],
     remaining_budget |-> budget,
     stock_index      |-> 1,
     safety_counter   |-> 0,
     broke            |-> FALSE]

\* The state of the allocation when the second pass has ended.
GreedyFill(aff, budget) ==
    GreedyLoop(aff, GreedyFirstPass(aff, 1, GreedyStart(aff, budget)), 14)

\* build_greedy_portfolio
BuildGreedyPortfolio(stocks, budget) ==
    LET aff == GreedyAffordable(stocks, budget)
    IN  IF aff = <<>> THEN <<>>
        ELSE LET st  == GreedyFill(aff, budget)
                 all == [i \in 1..Len(aff) |->
                            [ticker |-> aff[i].ticker, qty |-> st.shares[i]]]
                 bought(e) == e.qty > 0
             IN  EnforceBudget(SelectSeq(all, bought), stocks, budget)

-----------------------------------------------------------------------------
(* portfolio.rs: deploy_remaining_budget                                   *)

\* The candidates of deploy_remaining_budget, cheapest first.
DeployCandidates(stocks, remaining) ==
    LET ok(s) == /\ GetCurrentPrice(s) > 0
                 /\ GetCurrentPrice(s) <= remaining
                 /\ ~HasNegativeReturn(s)
        buyable(s) == GetCurrentPrice(s) > 0 /\ ~HasNegativeReturn(s)
        cheaper(a, b) == GetCurrentPrice(a) < GetCurrentPrice(b)
        first == SelectSeq(stocks, ok)
        any   == SelectSeq(stocks, buyable)
        \* Iterator::min_by: the first of the cheapest
        imin  == CHOOSE i \in 1..Len(any) :
                    /\ \A j \in 1..Len(any) : any[j].price >= any[i].price
                    /\ \A j \in 1..(i - 1) : any[j].price > any[i].price
    IN  IF first # <<>> THEN SortBy(first, cheaper)
        ELSE IF any = <<>> THEN <<>>
        ELSE IF any[imin].price > remaining THEN <<>>
        ELSE <<any[imin]>>

\* A slip: the purchase is always pushed as a new position
AddToPosition_AlwaysPush(p, ticker, qty) ==
    Append(p, [ticker |-> ticker, qty |-> qty])

\* "Add to existing position or create new one"
AddToPosition(p, ticker, qty) ==
    IF \E i \in 1..Len(p) : p[i].ticker = ticker
    THEN LET i == CHOOSE i \in 1..Len(p) :
                     /\ p[i].ticker = ticker
                     /\ \A j \in 1..(i - 1) : p[j].ticker # ticker
         IN  [p EXCEPT ![i].qty = p[i].qty + qty]
    ELSE Append(p, [ticker |-> ticker, qty |-> qty])

\* The loop over the candidates, from index i on; st = [p, remaining].
RECURSIVE DeployLoop(_, _, _, _)
DeployLoop(cands, i, st, budget) ==
    IF i > Len(cands) THEN st
    ELSE LET price == GetCurrentPrice(cands[i])
             afford_qty == st.remaining \div price
             cost == afford_qty * price
         IN  IF price <= 0 \/ afford_qty <= 0
             THEN DeployLoop(cands, i + 1, st, budget)
             ELSE LET st1 == IF cost <= st.remaining /\ cost <= budget
                             THEN [p |-> AddToPosition(st.p, cands[i].ticker, afford_qty),
                                   remaining |-> st.remaining - cost]
                             ELSE st
                  IN  IF st1.remaining <= 0 THEN st1
                      ELSE DeployLoop(cands, i + 1, st1, budget)

\* deploy_remaining_budget: the portfolio it leaves
DeployRemainingBudget(p, remaining, budget, stocks) ==
    IF remaining <= 0 THEN p
    ELSE LET cands == DeployCandidates(stocks, remaining)
         IN  IF cands = <<>> THEN p
             ELSE DeployLoop(cands, 1, [p |-> p, remaining |-> remaining], budget).p

-----------------------------------------------------------------------------
(* portfolio.rs: build_weighted_portfolio, concentrated mode               *)
(* alloc_budget is carried in hundredths: alloc100 = 100 * alloc_budget.   *)

\* A slip: a position whose full target is unaffordable is skipped
RECURSIVE ConcentratedLoop_SkipUnaffordable(_, _, _, _)
ConcentratedLoop_SkipUnaffordable(top, i, st, alloc100) ==
    IF i > Len(top) THEN st
    ELSE LET price == GetCurrentPrice(top[i])
             desired_qty == IF i <= Len(RANK_QUANTITIES) THEN RANK_QUANTITIES[i] ELSE 1
             desired_cost == desired_qty * price
         IN  IF price > 0 /\ 100 * (st.allocated + desired_cost) <= alloc100
             THEN ConcentratedLoop_SkipUnaffordable(top, i + 1,
                    [p |-> Append(st.p, [ticker |-> top[i].ticker, qty |-> desired_qty]),
                     allocated |-> st.allocated + desired_cost], alloc100)
             ELSE ConcentratedLoop_SkipUnaffordable(top, i + 1, st, alloc100)

\* A slip: every position gets its full target, affordable or not
ConcentratedLoop_FullTarget(top, i, st, alloc100) ==
    [p |-> [k \in 1..Len(top) |->
               [ticker |-> top[k].ticker,
                qty |-> IF k <= Len(RANK_QUANTITIES) THEN RANK_QUANTITIES[k] ELSE 1]],
     allocated |-> SumSeq([k \in 1..Len(top) |->
                             (IF k <= Len(RANK_QUANTITIES) THEN RANK_QUANTITIES[k] ELSE 1)
                                * GetCurrentPrice(top[k])])]

\* The loop over the ranked positions, from index i on; st = [p, allocated].
RECURSIVE ConcentratedLoop(_, _, _, _)
ConcentratedLoop(top, i, st, alloc100) ==
    IF i > Len(top) THEN st
    ELSE LET price == GetCurrentPrice(top[i])
             desired_qty == IF i <= Len(RANK_QUANTITIES) THEN RANK_QUANTITIES[i] ELSE 1
             desired_cost == desired_qty * price
             remaining100 == Max(alloc100 - 100 * st.allocated, 0)
             afford_qty == remaining100 \div (100 * price)
         IN  IF price <= 0 \/ desired_qty <= 0
             THEN ConcentratedLoop(top, i + 1, st, alloc100)
             ELSE IF 100 * (st.allocated + desired_cost) <= alloc100
             THEN ConcentratedLoop(top, i + 1,
                    [p |-> Append(st.p, [ticker |-> top[i].ticker, qty |-> desired_qty]),
                     allocated |-> st.allocated + desired_cost], alloc100)
             ELSE IF afford_qty > 0
             THEN ConcentratedLoop(top, i + 1,
                    [p |-> Append(st.p, [ticker |-> top[i].ticker, qty |-> afford_qty]),
                     allocated |-> st.allocated + afford_qty * price], alloc100)
             ELSE ConcentratedLoop(top, i + 1, st, alloc100)

\* The positions and the cost the concentrated loop allocates.
ConcentratedFill(stocks, alloc100, target_positions) ==
    LET num_positions == Min(Min(target_positions, Len(stocks)), MAX_POSITIONS)
    IN  ConcentratedLoop(Take(stocks, num_positions), 1,
                         [p |-> <<>>, allocated |-> 0], alloc100)

\* What build_weighted_portfolio holds before its final budget check.
WeightedBeforeCheck(stocks, alloc100, target_positions, original_budget) ==
    LET num_positions == Min(Min(target_positions, Len(stocks)), MAX_POSITIONS)
        st == ConcentratedFill(stocks, alloc100, target_positions)
        remaining_original == Max(original_budget - st.allocated, 0)
    IN  IF num_positions = 0 THEN <<>>
        ELSE IF remaining_original > 0
             THEN DeployRemainingBudget(st.p, remaining_original, original_budget, stocks)
             ELSE st.p

\* build_weighted_portfolio (CONCENTRATE_ALLOCATION is true; the weights the
\* function computes from returns and learned scores are read only by the
\* proportional branch, which is not compiled in).
BuildWeightedPortfolio(stocks, alloc100, target_positions, original_budget) ==
    LET num_positions == Min(Min(target_positions, Len(stocks)), MAX_POSITIONS)
        st == ConcentratedFill(stocks, alloc100, target_positions)
    IN  IF num_positions = 0 THEN <<>>
        ELSE IF st.p = <<>> THEN BuildGreedyPortfolio(stocks, original_budget)
        ELSE EnforceBudget(
               WeightedBeforeCheck(stocks, alloc100, target_positions, original_budget),
               stocks, original_budget)

-----------------------------------------------------------------------------
(* portfolio.rs: build_portfolio                                           *)

\* The comparator of build_portfolio's sort: "a sorts before b"
RankedBefore(a, b) ==
    IF a.historical_return.some /\ b.historical_return.some
    THEN a.historical_return.val > b.historical_return.val
    ELSE IF a.historical_return.some THEN TRUE
    ELSE IF b.historical_return.some THEN FALSE
    ELSE a.volatility < b.volatility

\* A slip: the retain is left out
RetainNonNegative_KeepAll(stocks) == stocks

\* sorted_stocks.retain(|s| !negative return)
RetainNonNegative(stocks) ==
    LET keep(s) == ~HasNegativeReturn(s) IN SelectSeq(stocks, keep)

\* sorted_stocks: the ranking and the removal of the negative returns
SortedStocks(stocks) == RetainNonNegative(SortBy(stocks, RankedBefore))

\* target_positions
TargetPositions(risk_level) ==
    CASE risk_level = "Conservative" -> 15
      [] risk_level = "Moderate"     -> 10
      [] risk_level = "Aggressive"   -> 7

\* A slip: the greedy fill is handed one more than the budget
ConstructPortfolio_OneMore(stocks, budget, risk_level) ==
    LET sorted_stocks == SortedStocks(stocks)
        alloc100 == budget * BUDGET_SPEND_PCT
    IN  IF alloc100 < 100 * 5000
        THEN BuildGreedyPortfolio(sorted_stocks, budget + 1)
        ELSE BuildWeightedPortfolio(sorted_stocks, alloc100,
                                    TargetPositions(risk_level), budget)

\* The strategy chosen by the size of the allocation budget.
ConstructPortfolio(stocks, budget, risk_level) ==
    LET sorted_stocks == SortedStocks(stocks)
        alloc100 == budget * BUDGET_SPEND_PCT
    IN  IF alloc100 < 100 * 5000
        THEN BuildGreedyPortfolio(sorted_stocks, budget)
        ELSE BuildWeightedPortfolio(sorted_stocks, alloc100,
                                    TargetPositions(risk_level), budget)

\* A slip: the trim checks the budget and forgets take(MAX_POSITIONS)
TrimToMaxPositions_NoTake(p, stocks, budget) == EnforceBudget(p, stocks, budget)

\* The defensive trim to MAX_POSITIONS, by historical return.
TrimToMaxPositions(p, stocks, budget) ==
    LET ret(t) == LET k == FindStock(stocks, t)
                  IN  IF k # 0 /\ stocks[k].historical_return.some
                      THEN stocks[k].historical_return.val ELSE 0
        before(a, b) == ret(a.ticker) > ret(b.ticker)
    IN  EnforceBudget(Take(SortBy(p, before), MAX_POSITIONS), stocks, budget)

\* The last check of build_portfolio.
FinalSafetyCheck(p, stocks, budget) ==
    IF CalculatePortfolioCost(p, stocks) > budget
    THEN ForceWithinBudget(p, stocks, budget)
    ELSE p

\* build_portfolio
BuildPortfolio(stocks, budget, risk_level) ==
    IF stocks = <<>> THEN <<>>
    ELSE IF budget <= 0 THEN <<>>
    ELSE LET p == ConstructPortfolio(stocks, budget, risk_level)
         IN  IF Len(p) > MAX_POSITIONS THEN TrimToMaxPositions(p, stocks, budget)
             ELSE FinalSafetyCheck(p, stocks, budget)

-----------------------------------------------------------------------------
(* stocks.rs: the monthly price cache                                      *)
(* A series is [ticker, dates, prices]; a date label "YYYY-MM" is <<y, m>>. *)

\* chrono::NaiveDate as a day number (days since 1970-01-01)
DaysFromCivil(y, m, d) ==
    LET yy  == IF m <= 2 THEN y - 1 ELSE y
        era == yy \div 400
        yoe == yy - era * 400
        mp  == IF m > 2 THEN m - 3 ELSE m + 9
        doy == (153 * mp + 2) \div 5 + d - 1
        doe == yoe * 365 + yoe \div 4 - yoe \div 100 + doy
    IN  era * 146097 + doe - 719468

\* The order of the labels "YYYY-MM" as strings
MonthKey(label) == label[1] * 12 + label[2]

\* A slip: the step is taken from the end value
LinearInterpolate_FromEnd(start_value, end_value, num, den) ==
    end_value + ((end_value - start_value) * num) \div den

\* linear_interpolate, ratio = num / den
LinearInterpolate(start_value, end_value, num, den) ==
    start_value + ((end_value - start_value) * num) \div den

\* cache.get(ticker): the index of the ticker's series, 0 if it has none
SeriesIndex(cache, ticker) ==
    IF \E i \in 1..Len(cache.entries) : cache.entries[i].ticker = ticker
    THEN CHOOSE i \in 1..Len(cache.entries) : cache.entries[i].ticker = ticker
    ELSE 0

\* get_monthly_price(ticker, "y-m-d")
GetMonthlyPrice(cache, ticker, y, m, d) ==
    IF ~cache.some \/ SeriesIndex(cache, ticker) = 0 THEN None
    ELSE
    LET data   == cache.entries[SeriesIndex(cache, ticker)]
        n      == Len(data.dates)
        key    == MonthKey(<<y, m>>)
        \* binary_search_by over the ordered labels: Ok(idx) or Err(idx)
        found  == \E i \in 1..n : MonthKey(data.dates[i]) = key
        exact  == CHOOSE i \in 1..n : MonthKey(data.dates[i]) = key
        idx    == Cardinality({i \in 1..n : MonthKey(data.dates[i]) < key})
    IN  IF found THEN Some(data.prices[exact])
        ELSE IF idx = 0 THEN Some(data.prices[1])
        ELSE IF idx >= n THEN Some(data.prices[n])
        ELSE LET before == data.dates[idx]
                 after  == data.dates[idx + 1]
                 before_date == DaysFromCivil(before[1], before[2], 1)
                 after_date  == DaysFromCivil(after[1], after[2], 1)
                 total_days  == after_date - before_date
                 target_days == DaysFromCivil(y, m, d) - before_date
                 \* ratio.clamp(0.0, 1.0)
                 num == Min(Max(target_days, 0), total_days)
             IN  Some(LinearInterpolate(data.prices[idx], data.prices[idx + 1],
                                        num, total_days))

\* The derived fields one stock gets from the prices at the window's ends.
WithReturn(stock, start_price, end_price) ==
    [stock EXCEPT
        !.historical_return = Some(((end_price - start_price) * 100) \div start_price),
        !.historical_start_price = Some(start_price)]

\* The loop body of fetch_from_monthly_cache for one stock
MonthlyFill(cache, stock, start_year, end_year) ==
    LET sp == GetMonthlyPrice(cache, stock.ticker, start_year, 1, 1)
        ep == GetMonthlyPrice(cache, stock.ticker, end_year, 12, 31)
    IN  IF sp.some /\ ep.some /\ sp.val > 0 THEN WithReturn(stock, sp.val, ep.val)
        ELSE stock

\* fetch_from_monthly_cache: the stocks it leaves
FetchFromMonthlyCache(cache, stocks, start_year, end_year) ==
    IF ~cache.some THEN stocks
    ELSE [i \in 1..Len(stocks) |-> MonthlyFill(cache, stocks[i], start_year, end_year)]

\* fetch_from_monthly_cache's result: hits > 0
MonthlyHit(cache, stocks, start_year, end_year) ==
    /\ cache.some
    /\ \E i \in 1..Len(stocks) :
          MonthlyFill(cache, stocks[i], start_year, end_year).historical_return.some

\* fetch_from_yahoo_api: quote is what the remote service answers for a
\* ticker, None (no usable answer) or the first and last close <<first, last>>.
FetchFromYahooApi(stocks, quote) ==
    [i \in 1..Len(stocks) |->
        IF ~stocks[i].historical_return.some /\ quote.some /\ quote.val[1] > 0
        THEN WithReturn(stocks[i], quote.val[1], quote.val[2])
        ELSE stocks[i]]

\* HISTORICAL_PERIODS_CACHE when the snapshot has no period table
NoPeriods == [some |-> FALSE, table |-> {}]

\* A date "YYYY-MM-DD" is <<y, m, d>>
Day(date) == DaysFromCivil(date[1], date[2], date[3])

\* A period of the table: its key "start_end" and its data by ticker, each
\* [ticker, start_price, return_pct]
Period(start, end, data) == [some |-> TRUE, start |-> start, end |-> end, data |-> data]

\* No period found
NoPeriod == [some |-> FALSE, start |-> <<0, 1, 1>>, end |-> <<0, 1, 1>>, data |-> <<>>]

\* period_data.get(ticker): the index of the ticker's data, 0 if it has none
PeriodIndex(period, ticker) ==
    IF \E i \in 1..Len(period.data) : period.data[i].ticker = ticker
    THEN CHOOSE i \in 1..Len(period.data) : period.data[i].ticker = ticker
    ELSE 0

\* find_matching_period: the periods it can return; which one depends on the
\* order in which the HashMap yields its keys
FindMatchingPeriod(periods, start, end) ==
    IF ~periods.some THEN {}
    ELSE LET exact      == {q \in periods.table : q.start = start /\ q.end = end}
             containing == {q \in periods.table :
                              Day(q.start) <= Day(start) /\ Day(q.end) >= Day(start)}
             distance(q) == IF Day(start) >= Day(q.start)
                            THEN Day(start) - Day(q.start)
                            ELSE Day(q.start) - Day(start)
             closest    == {q \in periods.table :
                              \A o \in periods.table : distance(q) <= distance(o)}
         IN  IF exact # {} THEN exact
             ELSE IF containing # {} THEN containing
             ELSE closest

\* find_surrounding_periods: the pairs <<before, after>> it can return, the
\* latest period that starts at or before the target and the earliest that
\* starts after it
FindSurroundingPeriods(periods, target) ==
    IF ~periods.some THEN {}
    ELSE LET befores == {q \in periods.table : Day(q.start) <= Day(target)}
             afters  == {q \in periods.table : Day(q.start) > Day(target)}
         IN  {<<b, a>> : b \in {q \in befores :
                                  \A o \in befores : Day(o.start) <= Day(q.start)},
                         a \in {q \in afters :
                                  \A o \in afters : Day(q.start) <= Day(o.start)}}

\* interpolate_price; the ratio is not clamped
InterpolatePrice(ticker, target, before, after) ==
    IF PeriodIndex(before, ticker) = 0 \/ PeriodIndex(after, ticker) = 0 THEN None
    ELSE LET before_data == before.data[PeriodIndex(before, ticker)]
             after_data  == after.data[PeriodIndex(after, ticker)]
             total_days  == Day(after.start) - Day(before.start)
             target_days == Day(target) - Day(before.start)
         IN  Some(LinearInterpolate(before_data.start_price, after_data.start_price,
                                    target_days, total_days))

\* The loop body of apply_cached_period_data for one stock
PeriodFill(stock, period) ==
    IF PeriodIndex(period, stock.ticker) = 0 THEN stock
    ELSE LET hist_data == period.data[PeriodIndex(period, stock.ticker)]
         IN  [stock EXCEPT !.historical_return = Some(hist_data.return_pct),
                           !.historical_start_price = Some(hist_data.start_price)]

\* apply_cached_period_data
ApplyCachedPeriodData(stocks, period) ==
    [i \in 1..Len(stocks) |-> PeriodFill(stocks[i], period)]

\* A quotient of f64 that is no number: x / 0.0
NonFinite == [some |-> TRUE, val |-> 0, special |-> "inf or NaN"]

\* The loop body of apply_interpolation_refinement for one stock;
\* end_price = original_start * (1 + original_return / 100)
RefineFill(stock, target, before, after) ==
    LET interpolated == InterpolatePrice(stock.ticker, target, before, after)
    IN  IF ~stock.historical_start_price.some THEN stock
        ELSE IF ~interpolated.some \/ ~stock.historical_return.some THEN stock
        ELSE LET end_price100 == stock.historical_start_price.val
                                   * (100 + stock.historical_return.val)
                 new_return ==
                     IF interpolated.val = 0 THEN NonFinite
                     ELSE Some((end_price100 - 100 * interpolated.val)
                                 \div interpolated.val)
             IN  [stock EXCEPT !.historical_start_price = interpolated,
                               !.historical_return = new_return]

\* apply_interpolation_refinement
ApplyInterpolationRefinement(stocks, target, before, after) ==
    [i \in 1..Len(stocks) |-> RefineFill(stocks[i], target, before, after)]

\* What fetch_from_cache found: the matching period and the surrounding pair
NoPick == [period |-> NoPeriod, refine |-> FALSE, before |-> NoPeriod, after |-> NoPeriod]

LegacyPicks(periods, start, end) ==
    IF FindMatchingPeriod(periods, start, end) = {} THEN {NoPick}
    ELSE { [period |-> q, refine |-> FALSE, before |-> NoPeriod, after |-> NoPeriod] :
             q \in {q \in FindMatchingPeriod(periods, start, end) :
                      FindSurroundingPeriods(periods, start) = {}} }
         \cup
         { [period |-> q, refine |-> TRUE, before |-> ba[1], after |-> ba[2]] :
             q \in FindMatchingPeriod(periods, start, end),
             ba \in FindSurroundingPeriods(periods, start) }

\* fetch_from_cache: the stocks it leaves
FetchFromCache(stocks, start, pick) ==
    IF ~pick.period.some THEN stocks
    ELSE IF pick.refine
    THEN ApplyInterpolationRefinement(ApplyCachedPeriodData(stocks, pick.period),
                                      start, pick.before, pick.after)
    ELSE ApplyCachedPeriodData(stocks, pick.period)

\* fetch_from_cache's result: hits > misses
LegacyHit(stocks, pick) ==
    /\ pick.period.some
    /\ 2 * Cardinality({i \in 1..Len(stocks) :
                          PeriodIndex(pick.period, stocks[i].ticker) # 0})
         > Len(stocks)

\* fetch_historical_returns: the monthly cache, else the legacy period table,
\* else the remote service for the stocks that still have no return.
\* cache holds MONTHLY_PRICES_CACHE (some, entries) and
\* HISTORICAL_PERIODS_CACHE (periods).
FetchHistoricalReturns(cache, stocks, start_year, end_year, quote, pick) ==
    IF MonthlyHit(cache, stocks, start_year, end_year)
    THEN FetchFromMonthlyCache(cache, stocks, start_year, end_year)
    ELSE IF LegacyHit(stocks, pick)
    THEN FetchFromCache(stocks, <<start_year, 1, 1>>, pick)
    ELSE FetchFromYahooApi(FetchFromCache(stocks, <<start_year, 1, 1>>, pick), quote)

-----------------------------------------------------------------------------
(* portfolio.rs: filter_stocks_by_profile                                  *)

\* EXCLUDED_TICKERS
EXCLUDED_TICKERS ==
    { <<"M","T","C","H">>, <<"T","F","C">>, <<"E","L","V">>, <<"E","A">>,
      <<"E","S">>, <<"M","D","L","Z">>, <<"N","E","E">>, <<"Z","B","H">> }

\* is_ticker_excluded
IsTickerExcluded(ticker) ==
    TickerContains(ticker, "-") \/ ticker \in EXCLUDED_TICKERS

\* A slip: the ceilings are taken as inclusive
MatchesRiskTolerance_Inclusive(volatility, risk_level) ==
    CASE risk_level = "Conservative" -> volatility <= 30
      [] risk_level = "Moderate"     -> volatility <= 50
      [] risk_level = "Aggressive"   -> TRUE

\* matches_risk_tolerance
MatchesRiskTolerance(volatility, risk_level) ==
    CASE risk_level = "Conservative" -> volatility < 30
      [] risk_level = "Moderate"     -> volatility < 50
      [] risk_level = "Aggressive"   -> TRUE

\* get_first_trading_year: the rows of the table for the tickers of the model
GetFirstTradingYear(ticker) ==
    CASE ticker = <<"E","A">>         -> Some(2008)
      [] ticker = <<"P","L","T","R">> -> Some(2020)
      [] ticker = <<"K">>             -> Some(2012)
      [] OTHER                        -> None

\* was_trading_during_period
WasTradingDuringPeriod(stock, start_year) ==
    IF ~start_year.some THEN TRUE
    ELSE IF stock.first_trading_year.some
         THEN stock.first_trading_year.val <= start_year.val
    ELSE IF GetFirstTradingYear(stock.ticker).some
         THEN GetFirstTradingYear(stock.ticker).val <= start_year.val
    ELSE FALSE

\* The sector labels (lower case) an excluded sector matches in
\* should_exclude_sector_extended: itself, the labels holding it, its synonyms.
SectorMatches(ex, sector) ==
    \/ sector = ex
    \/ ex = "technology" /\ sector \in {"information technology", "software",
                                        "semiconductors", "internet", "cloud"}
    \/ ex = "energy" /\ sector \in {"oil", "gas", "renewable energy"}
    \/ ex = "financials" /\ sector \in {"bank", "insurance"}

\* The sector stage of the filter (no sector_overrides.json: empty overrides)
SectorExcluded(stock, prof) ==
    \E ex \in prof.excluded_sectors : \E sec \in stock.sectors : SectorMatches(ex, sec)

\* is_dotcom_bubble_risky
IsDotcomBubbleRisky(stock) ==
    LET techy == \E sec \in stock.sectors :
                    sec \in {"technology", "information technology", "software",
                             "internet", "telecom", "media"}
        first == IF stock.first_trading_year.some THEN stock.first_trading_year
                 ELSE GetFirstTradingYear(stock.ticker)
        signals ==
            (IF techy THEN 1 ELSE 0)
          + (IF stock.historical_return.some /\ stock.historical_return.val > 200
             THEN 1 ELSE 0)
          + (IF stock.volatility > 100 THEN 1 ELSE 0)
          + (IF first.some /\ first.val >= 1995 /\ first.val <= 2001 THEN 1 ELSE 0)
          + (IF stock.market_cap > 0 /\ stock.market_cap < 5 THEN 1 ELSE 0)
    IN  signals >= 2

\* is_covid_vulnerable
IsCovidVulnerable(stock) ==
    \/ \E sec \in stock.sectors :
          sec \in {"airlines", "travel", "hospitality", "leisure", "hotel", "cruise",
                   "restaurant", "casino", "retail", "transportation"}
    \/ stock.historical_return.some /\ stock.historical_return.val < -30
    \/ stock.market_cap > 0 /\ stock.market_cap < 2 /\ stock.volatility > 70

\* The conjunction of the filter's stages for one stock
PassesFilter(stock, prof) ==
    /\ ~IsTickerExcluded(stock.ticker)
    /\ ~SectorExcluded(stock, prof)
    /\ MatchesRiskTolerance(stock.volatility, prof.risk_tolerance)
    /\ WasTradingDuringPeriod(stock, prof.start_year)
    /\ ~IsDotcomBubbleRisky(stock)
    /\ (prof.end_year.some /\ prof.end_year.val \in 2020..2021
           => ~IsCovidVulnerable(stock))

\* filter_stocks_by_profile
FilterStocksByProfile(stocks, prof) ==
    LET keep(s) == PassesFilter(s, prof) IN SelectSeq(stocks, keep)

-----------------------------------------------------------------------------
(* main.rs: pre_submit_validate                                            *)

\* SUBMIT_MARGIN = 0.03, in percent
SUBMIT_MARGIN_PCT == 3

\* price_map.get(t): the map is collected from the eligible stocks in order,
\* so the last stock of a ticker gives its price; 0 stands for a missing key.
PriceMapIndex(eligible, t) ==
    IF \E i \in 1..Len(eligible) : eligible[i].ticker = t
    THEN CHOOSE i \in 1..Len(eligible) :
            /\ eligible[i].ticker = t
            /\ \A j \in (i + 1)..Len(eligible) : eligible[j].ticker # t
    ELSE 0

PriceMapGet(eligible, t) == GetCurrentPrice(eligible[PriceMapIndex(eligible, t)])

\* A slip: the test for a space is left out
IsProblematicTicker_NoSpace(t) ==
    \/ TickerContains(t, ".") \/ TickerContains(t, "/") \/ TickerContains(t, "^")

\* The ticker forms the validator drops as non-canonical
IsProblematicTicker(t) ==
    \/ TickerContains(t, ".") \/ TickerContains(t, "/")
    \/ TickerContains(t, "^") \/ TickerContains(t, " ")

\* The three removals that come before the budget check
ValidatorClean(p, eligible, rejected_set) ==
    LET known(e)     == e.qty > 0 /\ PriceMapIndex(eligible, e.ticker) # 0
        accepted(e)  == e.ticker \notin rejected_set
        canonical(e) == ~IsProblematicTicker(e.ticker) /\ e.qty > 0
    IN  SelectSeq(SelectSeq(SelectSeq(p, known), accepted), canonical)

\* total: the cost of the cleaned positions at the prices of the map
ValidatorTotal(c, eligible) ==
    SumSeq([i \in 1..Len(c) |-> PriceMapGet(eligible, c[i].ticker) * c[i].qty])

\* "total > effective_budget", effective_budget = budget * (1 - SUBMIT_MARGIN)
OverSafeBudget(total, budget) == 100 * total > (100 - SUBMIT_MARGIN_PCT) * budget

\* The condition of the reduction loop; st = [cleaned, total, idx], idx from 0
ReduceRunning(st, budget) == OverSafeBudget(st.total, budget) /\ st.cleaned # <<>>

\* A slip of sign: the turn adds a share where it should take one
ReduceStep_AddShare(st, eligible, budget) ==
    IF ~ReduceRunning(st, budget) THEN st
    ELSE
    LET idx   == IF st.idx >= Len(st.cleaned) THEN 0 ELSE st.idx
        e     == st.cleaned[idx + 1]
        price == PriceMapGet(eligible, e.ticker)
    IN  IF e.qty > 0 /\ price > 0
        THEN [cleaned |-> [st.cleaned EXCEPT ![idx + 1].qty = e.qty + 1],
              total   |-> st.total - price,
              idx     |-> idx + 1]
        ELSE [cleaned |-> RemoveAt(st.cleaned, idx + 1),
              total   |-> st.total,
              idx     |-> idx]

\* One turn of the reduction loop
ReduceStep(st, eligible, budget) ==
    IF ~ReduceRunning(st, budget) THEN st
    ELSE
    LET idx   == IF st.idx >= Len(st.cleaned) THEN 0 ELSE st.idx
        e     == st.cleaned[idx + 1]
        price == PriceMapGet(eligible, e.ticker)
    IN  IF e.qty > 0 /\ price > 0
        THEN IF e.qty - 1 = 0
             THEN [cleaned |-> RemoveAt(st.cleaned, idx + 1),
                   total   |-> st.total - price,
                   idx     |-> idx]
             ELSE [cleaned |-> [st.cleaned EXCEPT ![idx + 1].qty = e.qty - 1],
                   total   |-> st.total - price,
                   idx     |-> idx + 1]
        ELSE \* "remove impossible position": the running total is kept
             [cleaned |-> RemoveAt(st.cleaned, idx + 1),
              total   |-> st.total,
              idx     |-> idx]

\* Up to 2^k turns of the reduction loop
RECURSIVE ReduceLoop(_, _, _, _)
ReduceLoop(st, eligible, budget, k) ==
    IF ~ReduceRunning(st, budget) THEN st
    ELSE IF k = 0 THEN ReduceStep(st, eligible, budget)
         ELSE ReduceLoop(ReduceLoop(st, eligible, budget, k - 1), eligible, budget, k - 1)

\* pre_submit_validate
PreSubmitValidate(p, eligible, budget, rejected_set) ==
    LET c     == ValidatorClean(p, eligible, rejected_set)
        total == ValidatorTotal(c, eligible)
        dearer(a, b) == PriceMapGet(eligible, a.ticker) > PriceMapGet(eligible, b.ticker)
    IN  IF ~OverSafeBudget(total, budget) THEN c
        ELSE ReduceLoop([cleaned |-> SortBy(c, dearer), total |-> total, idx |-> 0],
                        eligible, budget, 20).cleaned

-----------------------------------------------------------------------------
(* The inputs of the model: snapshots, briefs, answers of the remote sides  *)

\* A slip: the derived fields are read from the snapshot file with the rest
Stk_DerivedFromFile(ticker, price, volatility, sectors, market_cap, first_trading_year) ==
    [ticker |-> ticker, price |-> price, volatility |-> volatility,
     sectors |-> sectors, market_cap |-> market_cap,
     first_trading_year |-> first_trading_year,
     historical_return |-> Some(7), historical_start_price |-> Some(price)]

\* A Stock as load_stocks_from_cache leaves it: the derived fields are None.
Stk(ticker, price, volatility, sectors, market_cap, first_trading_year) ==
    [ticker |-> ticker, price |-> price, volatility |-> volatility,
     sectors |-> sectors, market_cap |-> market_cap,
     first_trading_year |-> first_trading_year,
     historical_return |-> None, historical_start_price |-> None]

\* A monthly series with one sample in January of y1 and one in December of y2
Ser(ticker, y1, p1, y2, p2) ==
    [ticker |-> ticker, dates |-> <<<<y1, 1>>, <<y2, 12>>>>, prices |-> <<p1, p2>>]

\* The scenario of three tickers at 50, 200 and 10, the last one a loser.
SnapScenario ==
    [stocks |-> << Stk(<<"A","A">>, 50, 20, {"energy"}, 50, Some(1990)),
                   Stk(<<"B","B">>, 200, 40, {"bank"}, 80, Some(1990)),
                   Stk(<<"C","C">>, 10, 60, {"energy"}, 30, Some(1990)) >>,
     monthly |-> [some |-> TRUE, periods |-> NoPeriods,
                  entries |-> << Ser(<<"A","A">>, 2018, 100, 2019, 120),
                                 Ser(<<"B","B">>, 2018, 100, 2019, 105),
                                 Ser(<<"C","C">>, 2018, 100, 2019, 95) >>]]

\* Two affordable tickers at 120 and 45, next to a ticker without a series, a
\* free one, one with a negative price and one the risk tiers exclude.
SnapSmall ==
    [stocks |-> << Stk(<<"D">>, 120, 20, {"energy"}, 50, Some(2000)),
                   Stk(<<"E">>, 45, 25, {"software"}, 60, Some(2010)),
                   Stk(<<"K">>, 30, 45, {"retail"}, 40, None),
                   Stk(<<"F">>, 0, 20, {"energy"}, 50, Some(2000)),
                   Stk(<<"G">>, -5, 20, {"energy"}, 50, Some(2000)),
                   Stk(<<"H">>, 7, 120, {"energy"}, 1, Some(2000)) >>,
     monthly |-> [some |-> TRUE, periods |-> NoPeriods,
                  entries |-> << Ser(<<"D">>, 2018, 50, 2019, 60),
                                 Ser(<<"E">>, 2018, 40, 2020, 80),
                                 Ser(<<"F">>, 2018, 0, 2019, 10),
                                 Ser(<<"G">>, 2018, 10, 2019, 30) >>]]

\* Fourteen tickers of low volatility: the twelve best ranked are dear, the
\* two worst ranked are cheap.
WideTickers ==
    << <<"W","A">>, <<"W","B">>, <<"W","C">>, <<"W","D">>, <<"W","E">>, <<"W","F">>,
       <<"W","G">>, <<"W","H">>, <<"W","I">>, <<"W","J">>, <<"W","K">>, <<"W","L">>,
       <<"W","M">>, <<"W","N">> >>

SnapWide ==
    [stocks |-> [i \in 1..14 |->
                    Stk(WideTickers[i], IF i <= 12 THEN 400 - 10 * i ELSE 3 * i - 32,
                        10 + i, {"energy"}, 50, Some(1990))],
     monthly |-> [some |-> TRUE, periods |-> NoPeriods,
                  entries |-> [i \in 1..14 |->
                                  Ser(WideTickers[i], 2018, 100, 2019, 200 - 5 * i)]]]

\* Ticker forms: a dot, a hyphen, a space, a ticker of the static deny list,
\* a lower-case letter.
SnapForms ==
    [stocks |-> << Stk(<<"B","R","K",".","B">>, 300, 20, {"bank"}, 90, Some(1990)),
                   Stk(<<"B","F","-","B">>, 60, 20, {"energy"}, 90, Some(1990)),
                   Stk(<<"X"," ","Y">>, 25, 20, {"energy"}, 90, Some(1990)),
                   Stk(<<"E","A">>, 100, 20, {"software"}, 90, None),
                   Stk(<<"Z","Z","Z","Z">>, 80, 20, {"energy"}, 90, Some(1990)),
                   Stk(<<"Q","q">>, 150, 20, {"energy"}, 90, Some(1990)) >>,
     monthly |-> [some |-> TRUE, periods |-> NoPeriods,
                  entries |-> << Ser(<<"B","R","K",".","B">>, 2018, 100, 2019, 150),
                                 Ser(<<"X"," ","Y">>, 2018, 100, 2019, 140),
                                 Ser(<<"Z","Z","Z","Z">>, 2018, 100, 2019, 130),
                                 Ser(<<"Q","q">>, 2018, 100, 2019, 120) >>]]

\* A snapshot without price history: the returns come from the remote service.
SnapBare ==
    [stocks |-> << Stk(<<"P","L","T","R">>, 20, 90, {"software"}, 40, None),
                   Stk(<<"R">>, 900, 40, {"energy"}, 50, Some(1990)),
                   Stk(<<"S">>, 35, 35, {"energy"}, 50, Some(1990)) >>,
     monthly |-> [some |-> FALSE, periods |-> NoPeriods, entries |-> <<>>]]

Snapshots == {SnapScenario, SnapSmall, SnapWide, SnapForms, SnapBare}

\* The budgets a brief states ("budget of $N": digits only, never negative)
Budgets == {0, 500, 10000, 100000}

RiskLevels == {"Conservative", "Moderate", "Aggressive"}

\* The investment windows a brief states: none, or a start and an end year
Windows == { <<None, None>>, <<Some(2018), Some(2019)>>, <<Some(2019), Some(2020)>> }

\* InvestorProfile, the fields the pipeline reads
Profiles ==
    { [some |-> TRUE, budget |-> b, risk_tolerance |-> r,
       start_year |-> w[1], end_year |-> w[2], excluded_sectors |-> x] :
      b \in Budgets, r \in RiskLevels, w \in Windows,
      x \in { {}, {"technology"} } }

NoProfile ==
    [some |-> FALSE, budget |-> 0, risk_tolerance |-> "Moderate",
     start_year |-> None, end_year |-> None, excluded_sectors |-> {}]

\* What the remote price service answers for a ticker
ApiQuotes == { None, Some(<<100, 130>>), Some(<<100, 80>>), Some(<<0, 50>>) }

-----------------------------------------------------------------------------
(* main.rs: the rejected-ticker list                                       *)

\* The cap this model puts on the lines of rejected_tickers.txt
MaxRejected == 4

\* The tokens of "[CODE: 400 Bad Request]", which send_post_request puts in
\* front of every answer that is not a success; "400" has no letter.
StatusTokens == { <<"C","O","D","E">>, <<"B","A","D">>, <<"R","E","Q","U","E","S","T">> }

\* The ASCII letters, lower case and upper case in step
LowerCase == << "a","b","c","d","e","f","g","h","i","j","k","l","m",
                "n","o","p","q","r","s","t","u","v","w","x","y","z" >>
UpperCase == << "A","B","C","D","E","F","G","H","I","J","K","L","M",
                "N","O","P","Q","R","S","T","U","V","W","X","Y","Z" >>

\* char::to_ascii_uppercase
CharToAsciiUppercase(c) ==
    IF \E k \in 1..26 : LowerCase[k] = c
    THEN UpperCase[CHOOSE k \in 1..26 : LowerCase[k] = c]
    ELSE c

\* str::to_ascii_uppercase
ToAsciiUppercase(t) == [i \in 1..Len(t) |-> CharToAsciiUppercase(t[i])]

\* The class [A-Za-z0-9.\-] of the capture
IsCaptureChar(c) ==
    \/ \E k \in 1..26 : LowerCase[k] = c \/ UpperCase[k] = c
    \/ c \in {"0","1","2","3","4","5","6","7","8","9", ".", "-"}

\* The capture of "invalid ticker type:\s*([A-Za-z0-9.\-]+)": the longest
\* prefix of the ticker made of letters, digits, dots and hyphens.
InvalidTickerCapture(t) ==
    LET stop(i) == ~IsCaptureChar(t[i])
        n == IF \E i \in 1..Len(t) : stop(i)
             THEN (CHOOSE i \in 1..Len(t) : stop(i) /\ \A j \in 1..(i - 1) : ~stop(j)) - 1
             ELSE Len(t)
    IN  SubSeq(t, 1, n)

\* parse_problematic_tickers on the error of a submission: err.http says the
\* server answered with an error status, err.ticker is the T of
\* "invalid ticker type: T of type str" (<<>> when the text names none).
ParseProblematicTickers(err) ==
    (IF err.http THEN StatusTokens ELSE {})
    \cup (IF err.ticker # <<>> /\ InvalidTickerCapture(err.ticker) # <<>>
          THEN {ToAsciiUppercase(InvalidTickerCapture(err.ticker))} ELSE {})

\* str::trim on a line of the file (the model's only white space is " ")
RECURSIVE Trim(_)
Trim(l) ==
    IF l = <<>> THEN <<>>
    ELSE IF Head(l) = " " THEN Trim(Tail(l))
    ELSE IF l[Len(l)] = " " THEN Trim(SubSeq(l, 1, Len(l) - 1))
    ELSE l

\* load_rejected_tickers: the trimmed lines that are not empty
LoadRejectedTickers(lines) == {Trim(l) : l \in lines} \ {<<>>}

\* append_rejected_tickers: the lines of the file afterwards; a ticker the
\* loaded set holds already is not written again
AppendRejectedTickers(lines, tickers) ==
    lines \cup {t \in tickers : t \notin LoadRejectedTickers(lines)}

-----------------------------------------------------------------------------
(* main.rs: the loop of main                                               *)

NoResult == [sent |-> FALSE, ok |-> FALSE, http |-> FALSE, ticker |-> <<>>, text |-> ""]

\* The texts of an accepted submission the model tells apart
AcceptTexts == {"points", "timed out", "other"}

\* portfolio_value of main: the market value of the built portfolio
PortfolioValue(p, eligible) ==
    SumSeq([i \in 1..Len(p) |->
              LET k == FindStock(eligible, p[i].ticker)
              IN  IF p[i].qty > 0 /\ k # 0
                  THEN GetCurrentPrice(eligible[k]) * p[i].qty ELSE 0])

\* A slip: the skip of a portfolio without value is left out
SkipZeroValue_Never(p, eligible) == FALSE

\* "if portfolio_value == 0.0 { ...; continue; }"
SkipZeroValue(p, eligible) == PortfolioValue(p, eligible) = 0

\* A slip: a submission that failed is sent again
AfterSubmit_Retry(result) == IF result.ok THEN "loop" ELSE "submit"

\* Where main goes when print_portfolio_and_submit has returned: the function
\* returns Ok(()) whatever send_portfolio answered, and the loop starts over.
AfterSubmit(result) == "loop"

Init ==
    /\ pc = "get_context"
    /\ \E snap \in Snapshots :
          /\ stock_metadata = snap.stocks
          /\ monthly_cache = snap.monthly
    /\ attempt = 1
    /\ profile = NoProfile
    /\ all_stocks = <<>>
    /\ eligible_stocks = <<>>
    /\ portfolio = <<>>
    /\ cleaned = <<>>
    /\ posts = 0
    /\ send_result = NoResult
    /\ rejected = {}
    /\ trace = ""
    /\ exit_error = ""
    /\ named = {}
    /\ files = NoFiles
    /\ ps = EmptyStore
    /\ now = 0
    /\ history = NoHistory

\* get_context: send_get_request fails on attempt 1 or 2, pause, next attempt
GetContextRetry ==
    /\ pc = "get_context"
    /\ attempt < 3
    /\ attempt' = attempt + 1
    /\ UNCHANGED <<pc, stock_metadata, monthly_cache, profile, all_stocks,
                   eligible_stocks, portfolio, cleaned, posts, send_result,
                   rejected, trace, exit_error,
                   named, points_vars>>

\* get_context: the third attempt fails, Err(e); "get_context().await?" in
\* main returns it
GetContextFail ==
    /\ pc = "get_context"
    /\ attempt = 3
    /\ pc' = "exited"
    /\ exit_error' = "get_context"
    /\ UNCHANGED <<stock_metadata, monthly_cache, attempt, profile, all_stocks,
                   eligible_stocks, portfolio, cleaned, posts, send_result,
                   rejected, trace,
                   named, points_vars>>

\* get_context: an attempt succeeds and the function returns the brief (the
\* next call counts its attempts from 1 again)
GetContextOk ==
    /\ pc = "get_context"
    /\ pc' = "parse"
    /\ attempt' = 1
    /\ UNCHANGED <<stock_metadata, monthly_cache, profile, all_stocks,
                   eligible_stocks, portfolio, cleaned, posts, send_result,
                   rejected, trace, exit_error,
                   named, points_vars>>

\* The end of an iteration of "loop { .. }": the values of the iteration are
\* dropped and the next iteration calls get_context.
NextIteration ==
    /\ pc = "loop"
    /\ pc' = "get_context"
    /\ profile' = NoProfile
    /\ all_stocks' = <<>>
    /\ eligible_stocks' = <<>>
    /\ portfolio' = <<>>
    /\ cleaned' = <<>>
    /\ posts' = 0
    /\ send_result' = NoResult
    /\ trace' = ""
    /\ UNCHANGED <<stock_metadata, monthly_cache, attempt, rejected, exit_error,
                   named, points_vars>>

\* InvestorProfile::from_context fails: "error in profile skipping"
ProfileError ==
    /\ pc = "parse"
    /\ pc' = "loop"
    /\ UNCHANGED <<stock_metadata, monthly_cache, attempt, profile, all_stocks,
                   eligible_stocks, portfolio, cleaned, posts, send_result,
                   rejected, trace, exit_error,
                   named, points_vars>>

\* InvestorProfile::from_context succeeds
ProfileParsed ==
    /\ pc = "parse"
    /\ \E prof \in Profiles : profile' = prof
    /\ pc' = "phase1"
    /\ UNCHANGED <<stock_metadata, monthly_cache, attempt, all_stocks,
                   eligible_stocks, portfolio, cleaned, posts, send_result,
                   rejected, trace, exit_error,
                   named, points_vars>>

\* The clone of the metadata and PHASE 1
Phase1 ==
    /\ pc = "phase1"
    /\ IF profile.start_year.some /\ profile.end_year.some
       THEN \E quote \in ApiQuotes,
               pick \in LegacyPicks(monthly_cache.periods,
                                    <<profile.start_year.val, 1, 1>>,
                                    <<profile.end_year.val, 12, 31>>) :
               all_stocks' = FetchHistoricalReturns(monthly_cache, stock_metadata,
                                profile.start_year.val, profile.end_year.val,
                                quote, pick)
       ELSE all_stocks' = stock_metadata
    /\ pc' = "filter"
    /\ UNCHANGED <<stock_metadata, monthly_cache, attempt, profile,
                   eligible_stocks, portfolio, cleaned, posts, send_result,
                   rejected, trace, exit_error,
                   named, points_vars>>

\* filter_stocks_by_profile, and the return of main when nothing is eligible
Filter ==
    /\ pc = "filter"
    /\ eligible_stocks' = FilterStocksByProfile(all_stocks, profile)
    /\ IF eligible_stocks' = <<>>
       THEN pc' = "exited" /\ exit_error' = "No eligible stocks found!"
       ELSE pc' = "predict" /\ UNCHANGED exit_error
    /\ UNCHANGED <<stock_metadata, monthly_cache, attempt, profile, all_stocks,
                   portfolio, cleaned, posts, send_result, rejected, trace,
                   named, points_vars>>

\* The surrogate predicts fewer points than MIN_EXPECTED_POINTS: the request is
\* skipped.  The prediction is a linear form whose coefficients are read from
\* linear_surrogate.json; the model leaves its value open.
PredictSkip ==
    /\ pc = "predict"
    /\ pc' = "loop"
    /\ trace' = "low_expected_points"
    /\ UNCHANGED <<stock_metadata, monthly_cache, attempt, profile, all_stocks,
                   eligible_stocks, portfolio, cleaned, posts, send_result,
                   rejected, exit_error,
                   named, points_vars>>

PredictProceed ==
    /\ pc = "predict"
    /\ pc' = "build"
    /\ UNCHANGED <<stock_metadata, monthly_cache, attempt, profile, all_stocks,
                   eligible_stocks, portfolio, cleaned, posts, send_result,
                   rejected, trace, exit_error,
                   named, points_vars>>

\* build_portfolio and the skip of a portfolio without value
Build ==
    /\ pc = "build"
    /\ portfolio' = BuildPortfolio(eligible_stocks, profile.budget, profile.risk_tolerance)
    /\ IF SkipZeroValue(portfolio', eligible_stocks)
       THEN pc' = "loop" /\ trace' = "zero_portfolio_value"
       ELSE pc' = "validate" /\ UNCHANGED trace
    /\ UNCHANGED <<stock_metadata, monthly_cache, attempt, profile, all_stocks,
                   eligible_stocks, cleaned, posts, send_result, rejected,
                   exit_error,
                   named, points_vars>>

\* pre_submit_validate
Validate ==
    /\ pc = "validate"
    /\ cleaned' = PreSubmitValidate(portfolio, eligible_stocks, profile.budget,
                                  LoadRejectedTickers(rejected))
    /\ pc' = "submit"
    /\ UNCHANGED <<stock_metadata, monthly_cache, attempt, profile, all_stocks,
                   eligible_stocks, portfolio, posts, send_result, rejected,
                   trace, exit_error,
                   named, points_vars>>

\* print_portfolio_and_submit: the one POST is answered with a success
SubmitAccepted ==
    /\ pc = "submit"
    /\ posts' = posts + 1
    /\ \E text \in AcceptTexts :
          send_result' = [sent |-> TRUE, ok |-> TRUE, http |-> FALSE,
                          ticker |-> <<>>, text |-> text]
    /\ trace' = "submitted"
    /\ pc' = AfterSubmit(send_result')
    /\ UNCHANGED <<stock_metadata, monthly_cache, attempt, profile, all_stocks,
                   eligible_stocks, portfolio, cleaned, rejected, exit_error,
                   named, points_vars>>

\* print_portfolio_and_submit: the one POST fails (no answer, or an error
\* status whose text may name a ticker); the tickers parsed from the error are
\* appended to the rejected list.
SubmitRejected ==
    /\ pc = "submit"
    /\ posts' = posts + 1
    /\ \E http \in BOOLEAN :
       \E t \in {<<>>, <<"Z","Z","Z","Z">>}
                  \cup {cleaned[i].ticker : i \in 1..Len(cleaned)} :
          /\ (~http => t = <<>>)
          /\ send_result' = [sent |-> TRUE, ok |-> FALSE, http |-> http,
                             ticker |-> t, text |-> "error"]
          /\ rejected' = AppendRejectedTickers(rejected,
                                               ParseProblematicTickers(send_result'))
          /\ Cardinality(rejected') <= MaxRejected
          /\ named' = (IF t = <<>> THEN named ELSE named \cup {t})
    /\ trace' = "submitted"
    /\ pc' = AfterSubmit(send_result')
    /\ UNCHANGED <<stock_metadata, monthly_cache, attempt, profile, all_stocks,
                   eligible_stocks, portfolio, cleaned, exit_error,
                   points_vars>>

Next ==
    \/ GetContextRetry
    \/ GetContextFail
    \/ GetContextOk
    \/ NextIteration
    \/ ProfileError
    \/ ProfileParsed
    \/ Phase1
    \/ Filter
    \/ PredictSkip
    \/ PredictProceed
    \/ Build
    \/ Validate
    \/ SubmitAccepted
    \/ SubmitRejected

Spec == Init /\ [][Next]_vars

-----------------------------------------------------------------------------
(* build_portfolio called on its own, for universes main need not produce  *)

\* The largest generated universe
MaxUniverse == 3

UniverseTickers == << <<"U","A">>, <<"U","B">>, <<"U","C">>, <<"U","D">>, <<"U","E">> >>

\* The kinds of stock a generated universe is made of: <<price, start price,
\* return>>; a cheap one without history, a winner, a dear winner, a loser, a
\* free one, one with a negative price and one that stood still.
StockKinds ==
    { <<3, None, None>>, <<40, Some(30), Some(33)>>, <<2600, Some(2000), Some(30)>>,
      <<40, Some(42), Some(-5)>>, <<0, Some(5), Some(10)>>, <<-5, Some(5), Some(30)>>,
      <<7, Some(7), Some(0)>> }

\* A stock of kind k with the i-th ticker
KindStock(i, k) ==
    [Stk(UniverseTickers[i], k[1], 10 * i, {"energy"}, 50, Some(1990))
       EXCEPT !.historical_start_price = k[2], !.historical_return = k[3]]

\* The universes of at most MaxUniverse stocks, every ticker listed once
GeneratedUniverses ==
    UNION { { [i \in 1..n |-> KindStock(i, f[i])] : f \in [1..n -> StockKinds] } :
            n \in 0..Min(MaxUniverse, Len(UniverseTickers)) }

\* The snapshots as PHASE 1 leaves them for a window
SnapshotUniverses ==
    { snap.stocks : snap \in Snapshots }
    \cup { FetchHistoricalReturns(snap.monthly, snap.stocks, 2018, 2019, None, NoPick) :
           snap \in Snapshots }

Universes == GeneratedUniverses \cup SnapshotUniverses

\* The budgets build_portfolio is called with (f64: none is excluded by type)
BuildBudgets == {-100, 0, 1, 500, 9999, 10000, 100000}

InitBuild ==
    /\ pc = "call_build"
    /\ stock_metadata = <<>>
    /\ monthly_cache = [some |-> FALSE, periods |-> NoPeriods, entries |-> <<>>]
    /\ attempt = 1
    /\ \E b \in BuildBudgets, r \in RiskLevels :
          profile = [NoProfile EXCEPT !.some = TRUE, !.budget = b, !.risk_tolerance = r]
    /\ all_stocks = <<>>
    /\ eligible_stocks \in Universes
    /\ portfolio = <<>>
    /\ cleaned = <<>>
    /\ posts = 0
    /\ send_result = NoResult
    /\ rejected = {}
    /\ trace = ""
    /\ exit_error = ""
    /\ named = {}
    /\ files = NoFiles
    /\ ps = EmptyStore
    /\ now = 0
    /\ history = NoHistory

\* build_portfolio(&eligible_stocks, profile.budget, profile.risk_tolerance)
CallBuildPortfolio ==
    /\ pc = "call_build"
    /\ portfolio' = BuildPortfolio(eligible_stocks, profile.budget, profile.risk_tolerance)
    /\ pc' = "built"
    /\ UNCHANGED <<stock_metadata, monthly_cache, attempt, profile, all_stocks,
                   eligible_stocks, cleaned, posts, send_result, rejected,
                   trace, exit_error,
                   named, points_vars>>

NextBuild == CallBuildPortfolio

SpecBuild == InitBuild /\ [][NextBuild]_vars

-----------------------------------------------------------------------------
(* pre_submit_validate called on its own, for every allocation and budget  *)

\* The longest allocation handed to the validator
MaxAllocation == 2

\* The eligible stocks of the call: two plain ones, one with a negative price,
\* a free one and the four non-canonical ticker forms
ValidatorEligible ==
    << Stk(<<"A">>, 100, 20, {"energy"}, 50, Some(1990)),
       Stk(<<"B">>, 40, 20, {"energy"}, 50, Some(1990)),
       Stk(<<"N">>, -100, 20, {"energy"}, 50, Some(1990)),
       Stk(<<"Z">>, 0, 20, {"energy"}, 50, Some(1990)),
       Stk(<<"X"," ","Y">>, 25, 20, {"energy"}, 50, Some(1990)),
       Stk(<<"B",".","R">>, 30, 20, {"energy"}, 50, Some(1990)),
       Stk(<<"C","/","D">>, 30, 20, {"energy"}, 50, Some(1990)),
       Stk(<<"^","G">>, 30, 20, {"energy"}, 50, Some(1990)) >>

\* The positions an allocation is made of; <<"U">> is no eligible stock
AllocationPositions ==
    { [ticker |-> <<"A">>, qty |-> 1], [ticker |-> <<"A">>, qty |-> 3],
      [ticker |-> <<"A">>, qty |-> 0], [ticker |-> <<"B">>, qty |-> 3],
      [ticker |-> <<"B">>, qty |-> -1], [ticker |-> <<"N">>, qty |-> 1],
      [ticker |-> <<"Z">>, qty |-> 2], [ticker |-> <<"U">>, qty |-> 1],
      [ticker |-> <<"X"," ","Y">>, qty |-> 1], [ticker |-> <<"B",".","R">>, qty |-> 1],
      [ticker |-> <<"C","/","D">>, qty |-> 1], [ticker |-> <<"^","G">>, qty |-> 1] }

Allocations ==
    UNION { [1..n -> AllocationPositions] : n \in 0..MaxAllocation }

\* The budgets of the call
ValidatorBudgets == {1, 50, 150, 1000}

\* The contents of rejected_tickers.txt at the call
RejectedFiles == { {}, {<<"A">>}, {<<"N">>}, {<<" ","B"," ">>, <<"Z">>} }

InitValidate ==
    /\ pc = "call_validate"
    /\ stock_metadata = <<>>
    /\ monthly_cache = [some |-> FALSE, periods |-> NoPeriods, entries |-> <<>>]
    /\ attempt = 1
    /\ \E b \in ValidatorBudgets : profile = [NoProfile EXCEPT !.some = TRUE, !.budget = b]
    /\ all_stocks = <<>>
    /\ eligible_stocks = ValidatorEligible
    /\ portfolio \in Allocations
    /\ cleaned = <<>>
    /\ posts = 0
    /\ send_result = NoResult
    /\ rejected \in RejectedFiles
    /\ trace = ""
    /\ exit_error = ""
    /\ named = {}
    /\ files = NoFiles
    /\ ps = EmptyStore
    /\ now = 0
    /\ history = NoHistory

\* pre_submit_validate(&portfolio, &eligible_stocks, profile.budget)
CallPreSubmitValidate ==
    /\ pc = "call_validate"
    /\ cleaned' = PreSubmitValidate(portfolio, eligible_stocks, profile.budget,
                                    LoadRejectedTickers(rejected))
    /\ pc' = "validated"
    /\ UNCHANGED <<stock_metadata, monthly_cache, attempt, profile, all_stocks,
                   eligible_stocks, portfolio, posts, send_result, rejected,
                   trace, exit_error,
                   named, points_vars>>

NextValidate == CallPreSubmitValidate

SpecValidate == InitValidate /\ [][NextValidate]_vars

-----------------------------------------------------------------------------
(* Properties                                                              *)

\* Every ticker of the universe is listed once
UniqueTickers(stocks) ==
    \A i, j \in 1..Len(stocks) : stocks[i].ticker = stocks[j].ticker => i = j

\* The stocks of the universe that carry ticker t
StocksOf(stocks, t) == {k \in 1..Len(stocks) : stocks[k].ticker = t}

\* sum(qty_i * price_i), read off the price field of the universe
CostAtCurrentPrices(p, stocks) ==
    SumSeq([i \in 1..Len(p) |->
              IF StocksOf(stocks, p[i].ticker) = {} THEN 0
              ELSE p[i].qty * stocks[CHOOSE k \in StocksOf(stocks, p[i].ticker) : TRUE].price])

\* C1: for a universe of unique tickers and a budget > 0, the allocation
\* build_portfolio returns costs, at current prices, at most the budget.
C1_BudgetCeiling ==
    (pc = "built" /\ profile.budget > 0 /\ UniqueTickers(eligible_stocks))
        => CostAtCurrentPrices(portfolio, eligible_stocks) <= profile.budget

\* C1, its case: the weighted path with leftover deployment has spent the
\* whole budget on two positions or more.
C1_Witness ==
    /\ pc = "built"
    /\ profile.budget >= 10000
    /\ UniqueTickers(eligible_stocks)
    /\ Len(portfolio) >= 2
    /\ CostAtCurrentPrices(portfolio, eligible_stocks) = profile.budget

\* C2: the allocation build_portfolio returns has at most MAX_POSITIONS
\* positions and at most MAX_POSITIONS distinct tickers.
C2_MaxPositions ==
    pc = "built" =>
        /\ Len(portfolio) <= MAX_POSITIONS
        /\ Cardinality({portfolio[i].ticker : i \in 1..Len(portfolio)}) <= MAX_POSITIONS

\* C2, its case: the construction left more than MAX_POSITIONS positions (the
\* deployment bought a ticker outside the ranked positions) and the trim cut
\* them to MAX_POSITIONS.
C2_Witness ==
    /\ pc = "built"
    /\ profile.budget > 0
    /\ Len(ConstructPortfolio(eligible_stocks, profile.budget, profile.risk_tolerance))
          > MAX_POSITIONS
    /\ Len(portfolio) = MAX_POSITIONS

\* C3: the allocation build_portfolio returns holds no ticker whose
\* historical_return is present and negative.
C3_NoNegativeReturn ==
    pc = "built" =>
        \A i \in 1..Len(portfolio) :
            \A k \in StocksOf(eligible_stocks, portfolio[i].ticker) :
                ~(eligible_stocks[k].historical_return.some
                  /\ eligible_stocks[k].historical_return.val < 0)

\* C3, its case: on the concentrated path the universe holds a loser the
\* budget could pay for, and other tickers were bought.
C3_Witness ==
    /\ pc = "built"
    /\ profile.budget >= 10000
    /\ portfolio # <<>>
    /\ \E k \in 1..Len(eligible_stocks) :
          /\ eligible_stocks[k].historical_return.some
          /\ eligible_stocks[k].historical_return.val < 0
          /\ eligible_stocks[k].price > 0
          /\ eligible_stocks[k].price <= profile.budget

C5_NonPositiveBudgetStops ==
    (profile.some /\ profile.budget <= 0) =>
        /\ portfolio = <<>>
        /\ posts = 0
        /\ pc \notin {"validate", "submit"}

\* C5, its case: a brief with budget 0 and eligible stocks went through
\* build_portfolio and the cycle was dropped.
C5_Witness ==
    /\ pc = "loop"
    /\ profile.some
    /\ profile.budget = 0
    /\ eligible_stocks # <<>>
    /\ trace = "zero_portfolio_value"

\* C6: an empty eligible set does not end the process.
C6_EmptyEligibleKeepsRunning ==
    ~(pc = "exited" /\ exit_error = "No eligible stocks found!")

\* C7: a brief fetch that failed on all three attempts does not end the
\* process.
C7_FetchFailureKeepsRunning ==
    ~(pc = "exited" /\ exit_error = "get_context")

\* C8: a cycle makes at most one POST to the submit endpoint.
C8_AtMostOncePost == posts <= 1

\* C8, its case: the one POST of the cycle failed and the cycle is over.
C8_Witness ==
    /\ pc = "loop"
    /\ send_result.sent
    /\ ~send_result.ok
    /\ posts = 1

\* C9: the validator's output holds no quantity <= 0, no ticker outside the
\* eligible stocks, no ticker of the rejected list as load_rejected_tickers
\* reads it, and no ticker with ".", "/", "^" or " ".
C9_ValidatorOutputClean ==
    pc = "validated" =>
        \A i \in 1..Len(cleaned) :
            /\ cleaned[i].qty > 0
            /\ StocksOf(eligible_stocks, cleaned[i].ticker) # {}
            /\ cleaned[i].ticker \notin LoadRejectedTickers(rejected)
            /\ \A j \in 1..Len(cleaned[i].ticker) :
                  cleaned[i].ticker[j] \notin {".", "/", "^", " "}

\* C9, its case: the allocation held an eligible ticker with a space next to
\* a position the validator kept.
C9_Witness ==
    /\ pc = "validated"
    /\ cleaned # <<>>
    /\ \E i \in 1..Len(portfolio) :
          /\ portfolio[i].qty > 0
          /\ StocksOf(eligible_stocks, portfolio[i].ticker) # {}
          /\ \E j \in 1..Len(portfolio[i].ticker) : portfolio[i].ticker[j] = " "

SubAllocation(out, inp) ==
    \E f \in [1..Len(out) -> 1..Len(inp)] :
        /\ \A i, j \in 1..Len(out) : f[i] = f[j] => i = j
        /\ \A i \in 1..Len(out) :
              /\ out[i].ticker = inp[f[i]].ticker
              /\ out[i].qty <= inp[f[i]].qty

\* No position of the allocation has a negative quantity or a negative price
NoNegativeTerm(p, stocks) ==
    \A i \in 1..Len(p) :
        /\ p[i].qty >= 0
        /\ \A k \in StocksOf(stocks, p[i].ticker) : stocks[k].price >= 0

TickersOf(p) == {p[i].ticker : i \in 1..Len(p)}

\* C12: once a rejection has named T in "invalid ticker type: T of type str",
\* T is on the rejected-ticker list and no allocation that leaves the
\* validator to be submitted contains T.
C12_RejectedNeverResubmitted ==
    /\ named \subseteq LoadRejectedTickers(rejected)
    /\ (pc = "submit" => TickersOf(cleaned) \cap named = {})

\* C12 for the tickers that the persisted form reproduces: upper-case letters,
\* digits, dots and hyphens only
C12_CanonicalRejectedNeverResubmitted ==
    LET canon == {t \in named : ToAsciiUppercase(InvalidTickerCapture(t)) = t}
    IN  /\ canon \subseteq LoadRejectedTickers(rejected)
        /\ (pc = "submit" => TickersOf(cleaned) \cap canon = {})

-----------------------------------------------------------------------------
(* points.rs: the learning store.  A score is an exact fraction <<n, d>>   *)
(* in lowest terms with d > 0; the rounding of f64 is not modelled here.   *)

Abs(x) == IF x < 0 THEN -x ELSE x

RECURSIVE Gcd(_, _)
Gcd(a, b) == IF b = 0 THEN a ELSE Gcd(b, a % b)

\* The fraction n / d in lowest terms
Ratio(n, d) ==
    LET g == Gcd(Abs(n), d)
    IN  <<n \div g, d \div g>>

Zero == <<0, 1>>

\* x + y, x * y, x < y on fractions
RAdd(x, y) == Ratio(x[1] * y[2] + y[1] * x[2], x[2] * y[2])
RMul(x, y) == Ratio(x[1] * y[1], x[2] * y[2])
RLess(x, y) == x[1] * y[2] < y[1] * x[2]

\* f64::powf for a whole exponent
RECURSIVE Powf(_, _)
Powf(x, k) == IF k = 0 THEN <<1, 1>> ELSE RMul(x, Powf(x, k - 1))

DAILY_DECAY_FACTOR == <<3, 5>>

VOL_LOW == "low"
VOL_MED == "medium"
VOL_HIGH == "high"

\* volatility_bucket; a volatility is in thousandths
VolatilityBucket(volatility) ==
    IF volatility < 30 THEN VOL_LOW
    ELSE IF volatility < 50 THEN VOL_MED
    ELSE VOL_HIGH

\* HashMap::insert on a map modelled as a function
MapInsert(m, k, v) == [x \in DOMAIN m \cup {k} |-> IF x = k THEN v ELSE m[x]]

\* HashMap::new()
EmptyMap == <<>>

\* PointsStore::get_score
GetScore(store, ticker, vol_bucket) ==
    IF ticker \in DOMAIN store.scores /\ vol_bucket \in DOMAIN store.scores[ticker]
    THEN store.scores[ticker][vol_bucket]
    ELSE Zero

\* A slip: the sum is stored without the clamp at zero
AddScore_NoClamp(store, ticker, vol_bucket, delta) ==
    LET entry == IF ticker \in DOMAIN store.scores
                 THEN store.scores[ticker] ELSE EmptyMap
        old == IF vol_bucket \in DOMAIN entry THEN entry[vol_bucket] ELSE Zero
    IN  [store EXCEPT !.scores =
            MapInsert(store.scores, ticker,
                      MapInsert(entry, vol_bucket, RAdd(old, delta)))]

\* PointsStore::add_score (the log of a negative update is left out)
AddScore(store, ticker, vol_bucket, delta) ==
    LET entry == IF ticker \in DOMAIN store.scores
                 THEN store.scores[ticker] ELSE EmptyMap
        old == IF vol_bucket \in DOMAIN entry THEN entry[vol_bucket] ELSE Zero
        sum == RAdd(old, delta)
        new == IF RLess(sum, Zero) THEN Zero ELSE sum
    IN  [store EXCEPT !.scores =
            MapInsert(store.scores, ticker, MapInsert(entry, vol_bucket, new))]

\* A slip: the decay divides by the factor
DecayAll_Divide(store, factor) ==
    IF factor[1] <= 0 \/ RLess(<<1, 1>>, factor) THEN store
    ELSE [store EXCEPT !.scores =
            [t \in DOMAIN store.scores |->
               [b \in DOMAIN store.scores[t] |->
                  RMul(store.scores[t][b], <<factor[2], factor[1]>>)]]]

\* PointsStore::decay_all
DecayAll(store, factor) ==
    IF RLess(factor, Zero) \/ RLess(<<1, 1>>, factor) THEN store
    ELSE [store EXCEPT !.scores =
            [t \in DOMAIN store.scores |->
               [b \in DOMAIN store.scores[t] |->
                  RMul(store.scores[t][b], factor)]]]

\* PointsStore::ensure_buckets
EnsureBuckets(store, ticker) ==
    LET m == IF ticker \in DOMAIN store.scores
             THEN store.scores[ticker] ELSE EmptyMap
    IN  [store EXCEPT !.scores =
            MapInsert(store.scores, ticker,
                      [b \in DOMAIN m \cup {VOL_LOW, VOL_MED, VOL_HIGH} |->
                         IF b \in DOMAIN m THEN m[b] ELSE Zero])]

\* serde_json::to_string_pretty(&self): the structured format
Serialize(store) ==
    [kind |-> "store", scores |-> store.scores, last_updated |-> store.last_updated]

\* A slip: load leaves the time decay out
Load_NoDecay(fs, path, clock) ==
    IF fs[path].kind \in {"store", "legacy"}
    THEN [scores |-> fs[path].scores, last_updated |-> clock]
    ELSE [scores |-> EmptyMap, last_updated |-> clock]

\* PointsStore::load at the clock value clock
Load(fs, path, clock) ==
    LET f == fs[path]
    IN  IF f.kind = "store"
        THEN LET parsed == [scores |-> f.scores, last_updated |-> f.last_updated]
                 decayed ==
                     IF f.last_updated > 0 /\ clock > f.last_updated
                     THEN DecayAll(parsed, Powf(DAILY_DECAY_FACTOR,
                                                clock - f.last_updated))
                     ELSE parsed
             IN  [decayed EXCEPT !.last_updated = clock]
        ELSE IF f.kind = "legacy"
        THEN [scores |-> f.scores, last_updated |-> clock]
        ELSE [scores |-> EmptyMap, last_updated |-> clock]

\* A slip: save writes the file of the store in place
TmpPath_InPlace(path) == path

\* The path "{path}.tmp" that save writes
TmpPath(path) == StoreTmpPath

\* File::create: the file is there and empty
FileCreate(fs, path) ==
    [fs EXCEPT ![path] = [kind |-> "partial", scores |-> EmptyMap, last_updated |-> 0]]

\* write_all to its end: the file holds the whole text
FileWriteAll(fs, path, text) == [fs EXCEPT ![path] = text]

\* fs::rename: the file at from replaces the one at to
FsRename(fs, from, to) ==
    IF from = to THEN fs
    ELSE [fs EXCEPT ![to] = fs[from], ![from] = NoFile]

\* The phrases that make main skip the learning update
IgnorePatterns ==
    {"too slow", "responded too slowly", "context expired", "timed out",
     "timeout", "expired", "context deadline"}

\* A slip: no response is held to be timed out
IsIgnored_Never(resp) == FALSE

\* is_ignored: the lower-cased response contains one of the patterns;
\* resp.phrases are the phrases the lower-cased text contains
IsIgnored(resp) == resp.phrases \cap IgnorePatterns # {}

\* A slip: every ticker is updated in the medium bucket
LearnBucket_Medium(eligible, ticker) == VOL_MED

\* The bucket main updates for a ticker of the portfolio
LearnBucket(eligible, ticker) ==
    IF FindStock(eligible, ticker) # 0
    THEN VolatilityBucket(eligible[FindStock(eligible, ticker)].volatility)
    ELSE VOL_MED

\* The loop of main over the portfolio: ensure_buckets, then add_score
RECURSIVE LearnLoop(_, _, _, _, _)
LearnLoop(store, p, eligible, delta, i) ==
    IF i > Len(p) THEN store
    ELSE LearnLoop(AddScore(EnsureBuckets(store, p[i].ticker), p[i].ticker,
                            LearnBucket(eligible, p[i].ticker), delta),
                   p, eligible, delta, i + 1)

\* The store main holds when it calls save: loaded, then updated for every
\* position; delta = points / 100
LearnUpdate(fs, clock, p, eligible, points) ==
    LearnLoop(Load(fs, StorePath, clock), p, eligible, Ratio(points, 100), 1)

-----------------------------------------------------------------------------
(* SpecPoints: the calls on the learning store and the learning update of  *)
(* main, on generated store files, portfolios and responses.  No step of   *)
(* the loop of main reads what the update writes: the weights that use the *)
(* scores are not compiled in, and the prediction that uses them is a      *)
(* choice of its own in Spec.                                               *)

\* The number of calls in a run
MaxOps == 3

\* The calls of add_score: ticker, bucket, delta
AddScoreCalls ==
    { << <<"A">>, VOL_LOW, <<9, 10>> >>,
      << <<"A">>, VOL_LOW, <<-3, 2>> >>,
      << <<"B">>, VOL_HIGH, <<1, 4>> >> }

\* The factors of the calls of decay_all: in [0, 1], above and below
Factors == { <<0, 1>>, <<1, 2>>, <<1, 1>>, <<3, 2>>, <<-1, 2>> }

\* scores { ticker: { bucket: n } }
OneScore(ticker, bucket, n) == [t \in {ticker} |-> [b \in {bucket} |-> <<n, 1>>]]

\* The files a run can find at the path of the store
InitialStoreFiles ==
    { NoFile,
      [kind |-> "garbage", scores |-> EmptyMap, last_updated |-> 0],
      [kind |-> "legacy", scores |-> OneScore(<<"A">>, VOL_LOW, 5), last_updated |-> 0],
      [kind |-> "store", scores |-> OneScore(<<"A">>, VOL_LOW, 100), last_updated |-> 0],
      [kind |-> "store", scores |-> OneScore(<<"A">>, VOL_LOW, 100), last_updated |-> 8],
      [kind |-> "store", scores |-> OneScore(<<"B">>, VOL_MED, 2), last_updated |-> 12] }

\* The eligible securities of the learning update: low, medium and high
\* volatility
LearnEligible ==
    << Stk(<<"A">>, 100, 20, {"energy"}, 90, Some(1990)),
       Stk(<<"C">>, 40, 40, {"energy"}, 90, Some(1990)),
       Stk(<<"B">>, 30, 90, {"energy"}, 90, Some(1990)) >>

\* The validated portfolios of the learning update
LearnPortfolios ==
    { << [ticker |-> <<"C">>, qty |-> 1] >>,
      << [ticker |-> <<"A">>, qty |-> 1], [ticker |-> <<"B">>, qty |-> 3] >> }

\* The answers to an accepted submission: the phrases of the lower-cased
\* text and the number of the field "points", if there is one
Responses ==
    { [phrases |-> {}, points |-> None],
      [phrases |-> {}, points |-> Some(90)],
      [phrases |-> {}, points |-> Some(-250)],
      [phrases |-> {"timed out"}, points |-> Some(90)],
      [phrases |-> {"too slow", "responded too slowly"}, points |-> Some(90)],
      [phrases |-> {"context expired", "expired"}, points |-> Some(50)] }

InitPoints ==
    /\ pc = "idle"
    /\ \E snap \in {SnapBare} :
          /\ stock_metadata = snap.stocks
          /\ monthly_cache = snap.monthly
    /\ attempt = 1
    /\ profile = NoProfile
    /\ all_stocks = <<>>
    /\ eligible_stocks = <<>>
    /\ portfolio = <<>>
    /\ cleaned = <<>>
    /\ posts = 0
    /\ send_result = NoResult
    /\ rejected = {}
    /\ trace = ""
    /\ exit_error = ""
    /\ named = {}
    /\ \E f \in InitialStoreFiles :
          files = [NoFiles EXCEPT ![StorePath] = f]
    /\ ps = EmptyStore
    /\ now = 10
    /\ history = NoHistory

\* PointsStore::load, by a process that runs or one that starts after a crash
CallLoad ==
    /\ pc \in {"idle", "crashed"}
    /\ history.ops < MaxOps
    /\ pc' = "idle"
    /\ ps' = Load(files, StorePath, now)
    /\ history' = [history EXCEPT
                      !.fresh = files[StorePath].kind \notin {"store", "legacy"},
                      !.touched = {},
                      !.last = "load",
                      !.ops = @ + 1]
    /\ UNCHANGED <<cycle_vars, files, now>>

\* PointsStore::add_score
CallAddScore ==
    /\ pc = "idle"
    /\ history.ops < MaxOps
    /\ \E c \in AddScoreCalls :
          /\ ps' = AddScore(ps, c[1], c[2], c[3])
          /\ history' = [history EXCEPT
                            !.touched = @ \cup {<<c[1], c[2]>>},
                            !.last = "add_score",
                            !.ops = @ + 1]
    /\ UNCHANGED <<pc, cycle_vars, files, now>>

\* PointsStore::decay_all
CallDecayAll ==
    /\ pc = "idle"
    /\ history.ops < MaxOps
    /\ \E factor \in Factors :
          ps' = DecayAll(ps, factor)
    /\ history' = [history EXCEPT !.last = "decay_all", !.ops = @ + 1]
    /\ UNCHANGED <<pc, cycle_vars, files, now>>

\* PointsStore::ensure_buckets
CallEnsureBuckets ==
    /\ pc = "idle"
    /\ history.ops < MaxOps
    /\ ps' = EnsureBuckets(ps, <<"A">>)
    /\ history' = [history EXCEPT !.last = "ensure_buckets", !.ops = @ + 1]
    /\ UNCHANGED <<pc, cycle_vars, files, now>>

\* PointsStore::save is called
CallSave ==
    /\ pc = "idle"
    /\ history.ops < MaxOps
    /\ pc' = "save_create"
    /\ history' = [history EXCEPT !.before = files, !.last = "save", !.ops = @ + 1]
    /\ UNCHANGED <<cycle_vars, files, ps, now>>

\* save: File::create(&tmp)
SaveCreate ==
    /\ pc = "save_create"
    /\ files' = FileCreate(files, TmpPath(StorePath))
    /\ pc' = "save_write"
    /\ UNCHANGED <<cycle_vars, ps, now, history>>

\* save: write_all(s.as_bytes())
SaveWriteAll ==
    /\ pc = "save_write"
    /\ files' = FileWriteAll(files, TmpPath(StorePath), Serialize(ps))
    /\ pc' = "save_rename"
    /\ UNCHANGED <<cycle_vars, ps, now, history>>

\* save: fs::rename(&tmp, &self.path)
SaveRename ==
    /\ pc = "save_rename"
    /\ files' = FsRename(files, TmpPath(StorePath), StorePath)
    /\ pc' = "idle"
    /\ history' = [history EXCEPT
                      !.last = IF @ = "learn" THEN "learn_saved" ELSE "saved"]
    /\ UNCHANGED <<cycle_vars, ps, now>>

\* save: File::create, write_all or fs::rename returns an error, which is
\* printed; save returns
SaveError ==
    /\ pc \in {"save_create", "save_write", "save_rename"}
    /\ pc' = "idle"
    /\ history' = [history EXCEPT !.last = "save_failed"]
    /\ UNCHANGED <<cycle_vars, files, ps, now>>

\* The process stops in the middle of save; the store in memory is lost
Crash ==
    /\ pc \in {"save_create", "save_write", "save_rename"}
    /\ pc' = "crashed"
    /\ ps' = EmptyStore
    /\ history' = [history EXCEPT !.fresh = TRUE, !.touched = {}, !.last = "crash"]
    /\ UNCHANGED <<cycle_vars, files, now>>

\* main, after an accepted submission: the learning update up to the call
\* of save
Learn ==
    /\ pc = "idle"
    /\ history.ops < MaxOps
    /\ \E resp \in Responses, p \in LearnPortfolios :
          LET seen == [some |-> TRUE, phrases |-> resp.phrases,
                       points |-> resp.points.val, p |-> p,
                       loaded |-> Load(files, StorePath, now)]
          IN  IF IsIgnored(resp)
              THEN /\ history' = [history EXCEPT !.before = files, !.learn = seen,
                                                 !.last = "learn_ignored",
                                                 !.ops = @ + 1]
                   /\ UNCHANGED <<pc, ps>>
              ELSE IF ~resp.points.some
              THEN /\ history' = [history EXCEPT !.before = files, !.learn = seen,
                                                 !.last = "learn_no_points",
                                                 !.ops = @ + 1]
                   /\ UNCHANGED <<pc, ps>>
              ELSE /\ ps' = LearnUpdate(files, now, p, LearnEligible, resp.points.val)
                   /\ pc' = "save_create"
                   /\ history' =
                        [history EXCEPT
                            !.fresh = files[StorePath].kind \notin {"store", "legacy"},
                            !.touched = {<<p[i].ticker,
                                           LearnBucket(LearnEligible, p[i].ticker)>> :
                                         i \in 1..Len(p)},
                            !.before = files, !.learn = seen,
                            !.last = "learn", !.ops = @ + 1]
    /\ UNCHANGED <<cycle_vars, files, now>>

\* A day passes
Tick ==
    /\ pc = "idle"
    /\ history.ops < MaxOps
    /\ now' = now + 1
    /\ history' = [history EXCEPT !.last = "tick", !.ops = @ + 1]
    /\ UNCHANGED <<pc, cycle_vars, files, ps>>

NextPoints ==
    \/ CallLoad
    \/ CallAddScore
    \/ CallDecayAll
    \/ CallEnsureBuckets
    \/ CallSave
    \/ SaveCreate
    \/ SaveWriteAll
    \/ SaveRename
    \/ SaveError
    \/ Crash
    \/ Learn
    \/ Tick

SpecPoints == InitPoints /\ [][NextPoints]_vars

-----------------------------------------------------------------------------
(* Properties of the learning store                                        *)

ScoreTickers == { <<"A">>, <<"B">>, <<"C">> }
ScoreBuckets == {"low", "medium", "high"}

\* The score a reader of the file f finds for a key
FileScore(f, t, b) ==
    IF f.kind \in {"store", "legacy"} /\ t \in DOMAIN f.scores /\ b \in DOMAIN f.scores[t]
    THEN f.scores[t][b]
    ELSE <<0, 1>>

\* The last call on the store was the learning update of main
LastWasLearning ==
    history.last \in {"learn_ignored", "learn_no_points", "learn", "learn_saved"}

\* C13: after an accepted submission whose response carries a timed-out,
\* expired or too-slow indicator, the files of the store are as they were and
\* no save is running or has run.
C13_TimedOutLeavesStore ==
    (LastWasLearning
       /\ history.learn.phrases \cap {"timed out", "expired", "too slow"} # {})
    => /\ files = history.before
       /\ pc = "idle"
       /\ history.last = "learn_ignored"

C13_Witness ==
    /\ history.last = "learn_ignored"
    /\ history.learn.points = 90
    /\ "too slow" \in history.learn.phrases
    /\ files[StorePath].kind = "store"
    /\ history.ops > 1

\* The keys of the positions of the learning update, the bucket taken from
\* the volatility of the eligible security
SubmittedKeys ==
    { <<LearnEligible[k].ticker,
        IF LearnEligible[k].volatility < 30 THEN "low"
        ELSE IF LearnEligible[k].volatility < 50 THEN "medium" ELSE "high">> :
      k \in {k \in 1..Len(LearnEligible) :
               \E i \in 1..Len(history.learn.p) :
                  history.learn.p[i].ticker = LearnEligible[k].ticker} }

\* old + p / 100, clamped at 0
PlusPoints(old, points) ==
    LET n == old[1] * 100 + points * old[2]
    IN  IF n < 0 THEN <<0, 1>> ELSE Ratio(n, old[2] * 100)

\* C14 as stated: when the learning update has been saved, the file holds,
\* for every submitted key, the score of the file before plus p/100 clamped
\* at 0, and for every other key the score of the file before.
C14_ChangesStoredByDelta ==
    history.last = "learn_saved"
    => /\ files[StorePath].kind = "store"
       /\ \A t \in ScoreTickers, b \in ScoreBuckets :
             FileScore(files[StorePath], t, b) =
                IF <<t, b>> \in SubmittedKeys
                THEN PlusPoints(FileScore(history.before[StorePath], t, b),
                                history.learn.points)
                ELSE FileScore(history.before[StorePath], t, b)

\* C14, amended: the scores are those of the store as loaded, that is after
\* the time decay of the load; every submitted key has changed by p/100
\* clamped at 0, every other key keeps its loaded score, and the file of the
\* store holds the result.
C14_ChangesLoadedByDelta ==
    history.last = "learn_saved"
    => /\ files[StorePath].kind = "store"
       /\ files[StorePath].last_updated = now
       /\ \A t \in ScoreTickers, b \in ScoreBuckets :
             FileScore(files[StorePath], t, b) =
                IF <<t, b>> \in SubmittedKeys
                THEN PlusPoints(GetScore(history.learn.loaded, t, b),
                                history.learn.points)
                ELSE GetScore(history.learn.loaded, t, b)

C14_Witness ==
    /\ history.last = "learn_saved"
    /\ history.learn.points = 90
    /\ Len(history.learn.p) = 2
    /\ FileScore(history.before[StorePath], <<"A">>, "low") = <<100, 1>>
    /\ FileScore(files[StorePath], <<"A">>, "low") = <<369, 10>>
    /\ FileScore(files[StorePath], <<"B">>, "high") = <<9, 10>>

\* C15: every stored score is >= 0, get_score is >= 0 for every key, and in
\* a store that began empty get_score is 0 for a key add_score never got.
C15_ScoresNonNegative ==
    /\ \A t \in DOMAIN ps.scores : \A b \in DOMAIN ps.scores[t] :
          ps.scores[t][b][1] >= 0 /\ ps.scores[t][b][2] > 0
    /\ \A t \in ScoreTickers, b \in ScoreBuckets :
          /\ GetScore(ps, t, b)[1] >= 0
          /\ (history.fresh /\ <<t, b>> \notin history.touched
                => GetScore(ps, t, b) = <<0, 1>>)

C15_Witness ==
    /\ history.fresh
    /\ history.last = "decay_all"
    /\ history.ops = 3
    /\ <<"A">> \in DOMAIN ps.scores
    /\ DOMAIN ps.scores[<<"A">>] = ScoreBuckets
    /\ GetScore(ps, <<"A">>, "low") = <<0, 1>>
    /\ history.touched = {<< <<"A">>, "low" >>}

\* C16: the file at the path of the store is never a partial write; while
\* save runs and after a crash in save it holds the contents from before the
\* call, and when save has returned it holds the whole new contents.
C16_StoreFileNeverPartial ==
    /\ files[StorePath].kind # "partial"
    /\ (pc \in {"save_create", "save_write", "save_rename", "crashed"}
          => files[StorePath] = history.before[StorePath])
    /\ (history.last \in {"saved", "learn_saved"}
          => files[StorePath] = [kind |-> "store", scores |-> ps.scores,
                                 last_updated |-> ps.last_updated])

C16_Witness ==
    /\ pc = "crashed"
    /\ files[StoreTmpPath].kind = "partial"
    /\ files[StorePath].kind = "store"
    /\ files[StorePath].last_updated = 10

RECURSIVE IntPow(_, _)
IntPow(x, k) == IF k = 0 THEN 1 ELSE x * IntPow(x, k - 1)

\* C17: a store loaded from a file stamped d days before the clock holds
\* every score of the file times (3/5)^d, whatever was loaded before; the
\* file is as it was.
C17_LoadDecaysByElapsedDays ==
    LET f == files[StorePath]
        d == now - f.last_updated
    IN  (history.last = "load" /\ f.kind = "store"
           /\ f.last_updated > 0 /\ d >= 0)
        => /\ ps.last_updated = now
           /\ \A t \in ScoreTickers, b \in ScoreBuckets :
                 LET x == FileScore(f, t, b)
                     y == GetScore(ps, t, b)
                 IN  y[1] * x[2] * IntPow(5, d) = x[1] * IntPow(3, d) * y[2]

C17_Witness ==
    /\ history.last = "load"
    /\ history.ops = 3
    /\ now = 10
    /\ files[StorePath].last_updated = 8
    /\ FileScore(files[StorePath], <<"A">>, "low") = <<100, 1>>
    /\ GetScore(ps, <<"A">>, "low") = <<36, 1>>

-----------------------------------------------------------------------------
(* SpecDecay: decay_all with the rounding of a floating-point product.     *)
(* A float is <<m, e>>, the number m * 2^e, with Precision bits in m       *)
(* (2^(Precision-1) <= m < 2^Precision) or <<0, 0>>; f64 has 53 bits.  The *)
(* range of the exponent is not bounded: no underflow, no overflow.        *)

Precision == 4

\* The least and the first too large significand
MinSig == IntPow(2, Precision - 1)
TopSig == IntPow(2, Precision)

\* The product of two floats, rounded to the nearest float, ties to even
F64Mul(x, y) ==
    IF x[1] = 0 \/ y[1] = 0 THEN <<0, 0>>
    ELSE LET m == x[1] * y[1]
             s == IF m >= TopSig * MinSig THEN Precision ELSE Precision - 1
             q == m \div IntPow(2, s)
             r == m % IntPow(2, s)
             half == IntPow(2, s - 1)
             up == r > half \/ (r = half /\ q % 2 = 1)
             n == IF up THEN q + 1 ELSE q
         IN  IF n = TopSig THEN <<MinSig, x[2] + y[2] + s + 1>>
             ELSE <<n, x[2] + y[2] + s>>

\* x < y on floats that are >= 0
F64Less(x, y) ==
    LET e == Min(x[2], y[2])
    IN  IF x[1] = 0 THEN y[1] > 0
        ELSE IF y[1] = 0 THEN FALSE
        ELSE IF x[2] - e > Precision THEN FALSE
        ELSE IF y[2] - e > Precision THEN TRUE
        ELSE x[1] * IntPow(2, x[2] - e) < y[1] * IntPow(2, y[2] - e)

F64One == <<MinSig, 1 - Precision>>

\* A slip: the factor is applied twice
DecayAllF64_Twice(store, factor) ==
    [store EXCEPT !.scores =
        [t \in DOMAIN store.scores |->
           [b \in DOMAIN store.scores[t] |->
              F64Mul(F64Mul(store.scores[t][b], factor), factor)]]]

\* PointsStore::decay_all on scores that are floats
DecayAllF64(store, factor) ==
    IF F64Less(factor, <<0, 0>>) \/ F64Less(F64One, factor) THEN store
    ELSE [store EXCEPT !.scores =
            [t \in DOMAIN store.scores |->
               [b \in DOMAIN store.scores[t] |->
                  F64Mul(store.scores[t][b], factor)]]]

\* The scores of the stores: 0 and floats between 1/2 and 16
DecayScores ==
    {<<0, 0>>} \cup {<<m, e>> : m \in MinSig..(TopSig - 1),
                               e \in {-Precision, 1 - Precision, 4 - Precision}}

\* The factors: the floats of (1/4, 1], and 3/2, which decay_all refuses
DecayFactors ==
    {<<m, e>> : m \in MinSig..(TopSig - 1), e \in {-Precision - 1, -Precision}}
    \cup {F64One, <<3 * IntPow(2, Precision - 2), 1 - Precision>>}

InitDecay ==
    /\ pc = "decay_first"
    /\ \E snap \in {SnapBare} :
          /\ stock_metadata = snap.stocks
          /\ monthly_cache = snap.monthly
    /\ attempt = 1
    /\ profile = NoProfile
    /\ all_stocks = <<>>
    /\ eligible_stocks = <<>>
    /\ portfolio = <<>>
    /\ cleaned = <<>>
    /\ posts = 0
    /\ send_result = NoResult
    /\ rejected = {}
    /\ trace = ""
    /\ exit_error = ""
    /\ named = {}
    /\ files = NoFiles
    /\ \E x \in DecayScores :
          ps = [scores |-> [t \in {<<"A">>} |-> [b \in {VOL_LOW, VOL_HIGH} |->
                              IF b = VOL_LOW THEN x ELSE F64One]],
                last_updated |-> 0]
    /\ now = 0
    /\ history = [start |-> ps, f1 |-> <<0, 0>>, f2 |-> <<0, 0>>]

\* decay_all(f1)
DecayFirst ==
    /\ pc = "decay_first"
    /\ \E f1 \in DecayFactors :
          /\ ps' = DecayAllF64(ps, f1)
          /\ history' = [history EXCEPT !.f1 = f1]
    /\ pc' = "decay_second"
    /\ UNCHANGED <<cycle_vars, files, now>>

\* decay_all(f2)
DecaySecond ==
    /\ pc = "decay_second"
    /\ \E f2 \in DecayFactors :
          /\ ps' = DecayAllF64(ps, f2)
          /\ history' = [history EXCEPT !.f2 = f2]
    /\ pc' = "decayed"
    /\ UNCHANGED <<cycle_vars, files, now>>

NextDecay ==
    \/ DecayFirst
    \/ DecaySecond

SpecDecay == InitDecay /\ [][NextDecay]_vars

\* The two factors are in (0, 1]
FactorsInRange ==
    /\ F64Less(<<0, 0>>, history.f1) /\ ~F64Less(F64One, history.f1)
    /\ F64Less(<<0, 0>>, history.f2) /\ ~F64Less(F64One, history.f2)

\* The store after one decay_all(f1 * f2), the product taken in floats
SingleDecay == DecayAllF64(history.start, F64Mul(history.f1, history.f2))

\* |x - y| in units of the last place of the smaller exponent
UlpDistance(x, y) ==
    LET e == Min(x[2], y[2])
    IN  IF x[1] = 0 \/ y[1] = 0 THEN x[1] + y[1]
        ELSE Abs(x[1] * IntPow(2, x[2] - e) - y[1] * IntPow(2, y[2] - e))

\* C18 as stated: after decay_all(f1) and decay_all(f2), f1 and f2 in (0, 1],
\* every score equals the score after one decay_all(f1 * f2).
C18_DecayTwiceEqualsOnce ==
    (pc = "decayed" /\ FactorsInRange) => ps = SingleDecay

\* C18, amended: the two scores differ by at most two units in the last
\* place, and are equal when the score is 0 or a factor is 1.
C18_DecayTwiceNearOnce ==
    (pc = "decayed" /\ FactorsInRange)
    => \A t \in DOMAIN ps.scores : \A b \in DOMAIN ps.scores[t] :
          /\ DOMAIN SingleDecay.scores = DOMAIN ps.scores
          /\ UlpDistance(ps.scores[t][b], SingleDecay.scores[t][b]) <= 2
          /\ (history.start.scores[t][b] = <<0, 0>> \/ history.f1 = F64One
                \/ history.f2 = F64One
              => ps.scores[t][b] = SingleDecay.scores[t][b])

C18_Witness ==
    /\ pc = "decayed"
    /\ FactorsInRange
    /\ history.f1 # F64One /\ history.f2 # F64One
    /\ ps.scores[<<"A">>][VOL_LOW] # <<0, 0>>
    /\ ps # history.start
    /\ ps = SingleDecay

-----------------------------------------------------------------------------
(* SpecPrices: the price lookups and fetch_historical_returns on generated *)
(* monthly series, period tables and answers of the remote service.        *)

PriceTicker == <<"P">>
OtherTicker == <<"Q">>

\* The stocks whose derived fields are filled
PriceStocks ==
    << Stk(PriceTicker, 50, 20, {"energy"}, 90, Some(1990)),
       Stk(OtherTicker, 20, 20, {"energy"}, 90, Some(1990)) >>

\* The sample prices of the generated data
SamplePrices == {-30, 0, 10, 40}

\* The monthly caches: one series of three samples for P, none for Q
MonthlyCaches ==
    { [some |-> TRUE, periods |-> NoPeriods,
       entries |-> << [ticker |-> PriceTicker,
                       dates |-> << <<2018, 1>>, <<2018, 3>>, <<2019, 12>> >>,
                       prices |-> << a, b, c >>] >>] :
      a \in SamplePrices, b \in SamplePrices, c \in SamplePrices }

\* The data of a period: P with a start price and a return of 10 per cent, Q
\* with the start price 20 and a return of 5 per cent, or P alone
PeriodData(sp) ==
    { << [ticker |-> PriceTicker, start_price |-> sp, return_pct |-> 10],
         [ticker |-> OtherTicker, start_price |-> 20, return_pct |-> 5] >>,
      << [ticker |-> PriceTicker, start_price |-> sp, return_pct |-> 10] >> }

\* The period tables: a period that starts in 2017, with or without one that
\* starts with 2018 and one that starts in the middle of 2018
PeriodTables ==
    { [some |-> FALSE, entries |-> <<>>,
       periods |-> [some |-> TRUE, table |-> t]] :
      t \in
        { {Period(<<2017, 1, 1>>, <<2017, 6, 30>>, d1)} : d1 \in PeriodData(10) }
        \cup
        { {Period(<<2018, 1, 1>>, <<2019, 12, 31>>, d1)} :
            d1 \in UNION {PeriodData(sp) : sp \in SamplePrices} }
        \cup
        { {Period(<<2017, 1, 1>>, <<2018, 6, 30>>, d1),
           Period(<<2018, 7, 1>>, <<2018, 12, 31>>, d2)} :
            d1 \in UNION {PeriodData(sp) : sp \in SamplePrices},
            d2 \in UNION {PeriodData(sp) : sp \in SamplePrices} } }

\* The dates looked up
TargetDates ==
    { <<2017, 5, 5>>, <<2018, 1, 1>>, <<2018, 1, 15>>, <<2018, 2, 15>>,
      <<2018, 3, 31>>, <<2018, 12, 31>>, <<2019, 12, 31>>, <<2020, 6, 1>> }

\* The answers of the remote service for the window
PriceQuotes == {None, Some(<<0, 10>>), Some(<<10, 40>>), Some(<<-30, 10>>)}

NoLookup ==
    [target |-> <<0, 1, 1>>, result |-> None, before |-> NoPeriod, after |-> NoPeriod,
     quote |-> None, pick |-> NoPick]

InitPrices ==
    /\ pc = "prices"
    /\ stock_metadata = PriceStocks
    /\ monthly_cache \in MonthlyCaches \cup PeriodTables
                         \cup {[some |-> FALSE, periods |-> NoPeriods, entries |-> <<>>]}
    /\ attempt = 1
    /\ \E w \in { <<2018, 2018>>, <<2018, 2019>> } :
          profile = [NoProfile EXCEPT !.some = TRUE, !.start_year = Some(w[1]),
                                      !.end_year = Some(w[2])]
    /\ all_stocks = <<>>
    /\ eligible_stocks = <<>>
    /\ portfolio = <<>>
    /\ cleaned = <<>>
    /\ posts = 0
    /\ send_result = NoResult
    /\ rejected = {}
    /\ trace = ""
    /\ exit_error = ""
    /\ named = {}
    /\ files = NoFiles
    /\ ps = EmptyStore
    /\ now = 0
    /\ history = NoLookup

\* get_monthly_price(ticker, target_date)
CallGetMonthlyPrice ==
    /\ pc = "prices"
    /\ \E target \in TargetDates :
          history' = [history EXCEPT
                         !.target = target,
                         !.result = GetMonthlyPrice(monthly_cache, PriceTicker,
                                                    target[1], target[2], target[3])]
    /\ pc' = "looked_up"
    /\ UNCHANGED <<cycle_vars, files, ps, now>>

\* interpolate_price(ticker, target_date, before_period, after_period), the
\* periods found by find_surrounding_periods
CallInterpolatePrice ==
    /\ pc = "prices"
    /\ \E target \in TargetDates :
       \E ba \in FindSurroundingPeriods(monthly_cache.periods, target) :
          history' = [history EXCEPT
                         !.target = target, !.before = ba[1], !.after = ba[2],
                         !.result = InterpolatePrice(PriceTicker, target, ba[1], ba[2])]
    /\ pc' = "interpolated"
    /\ UNCHANGED <<cycle_vars, files, ps, now>>

\* fetch_historical_returns on a copy of the stocks, for the window
CallFetchHistoricalReturns ==
    /\ pc = "prices"
    /\ \E quote \in PriceQuotes,
          pick \in LegacyPicks(monthly_cache.periods,
                               <<profile.start_year.val, 1, 1>>,
                               <<profile.end_year.val, 12, 31>>) :
          /\ all_stocks' = FetchHistoricalReturns(monthly_cache, stock_metadata,
                               profile.start_year.val, profile.end_year.val,
                               quote, pick)
          /\ history' = [history EXCEPT !.quote = quote, !.pick = pick]
    /\ pc' = "fetched"
    /\ UNCHANGED <<stock_metadata, monthly_cache, attempt, profile,
                   eligible_stocks, portfolio, cleaned, posts, send_result,
                   rejected, trace, exit_error, named, files, ps, now>>

NextPrices ==
    \/ CallGetMonthlyPrice
    \/ CallInterpolatePrice
    \/ CallFetchHistoricalReturns

SpecPrices == InitPrices /\ [][NextPrices]_vars

-----------------------------------------------------------------------------
(* Properties of the price lookups                                         *)

\* lo <= x <= hi for the two prices in either order
Between(x, p, q) == Min(p, q) <= x /\ x <= Max(p, q)

\* C19: a lookup whose target date lies strictly between two adjacent samples
\* returns a price between the prices of the two samples: in the monthly
\* series (a sample is dated the first of its month) and in the period table
\* (a sample is dated the start of its period).
C19_LookupBetweenSamples ==
    /\ (pc = "looked_up" /\ monthly_cache.some)
       => LET data == monthly_cache.entries[1]
              t == Day(history.target)
          IN  \A i \in 1..(Len(data.dates) - 1) :
                 (/\ DaysFromCivil(data.dates[i][1], data.dates[i][2], 1) < t
                  /\ t < DaysFromCivil(data.dates[i + 1][1], data.dates[i + 1][2], 1))
                 => /\ history.result.some
                    /\ Between(history.result.val, data.prices[i], data.prices[i + 1])
    /\ (pc = "interpolated"
          /\ Day(history.before.start) < Day(history.target)
          /\ Day(history.target) < Day(history.after.start)
          /\ PeriodIndex(history.before, PriceTicker) # 0
          /\ PeriodIndex(history.after, PriceTicker) # 0)
       => /\ history.result.some
          /\ Between(history.result.val,
                     history.before.data[PeriodIndex(history.before, PriceTicker)].start_price,
                     history.after.data[PeriodIndex(history.after, PriceTicker)].start_price)

C19_Witness ==
    /\ pc = "looked_up"
    /\ history.target = <<2018, 2, 15>>
    /\ monthly_cache.some
    /\ monthly_cache.entries[1].prices[1] = 10
    /\ monthly_cache.entries[1].prices[2] = 40
    /\ history.result.some
    /\ history.result.val > 10 /\ history.result.val < 40

\* (end - start) / start * 100, start > 0
ReturnPct(start, end) == ((end - start) * 100) \div start

\* The claim of C20 for one filled stock on the monthly path
MonthlyReturnAsClaimed(stock) ==
    LET sp == GetMonthlyPrice(monthly_cache, stock.ticker, profile.start_year.val, 1, 1)
        ep == GetMonthlyPrice(monthly_cache, stock.ticker, profile.end_year.val, 12, 31)
    IN  IF ~sp.some \/ ~ep.some THEN stock.historical_return = None
        ELSE IF sp.val <= 0 THEN stock.historical_return = None
        ELSE stock.historical_return = Some(ReturnPct(sp.val, ep.val))

\* The claim of C20 for one stock the remote service is asked for
RemoteReturnAsClaimed(stock) ==
    IF ~history.quote.some \/ history.quote.val[1] <= 0
    THEN stock.historical_return = None
    ELSE stock.historical_return = Some(ReturnPct(history.quote.val[1],
                                                  history.quote.val[2]))

\* The claim of C20 for one stock that has data in the matching period: the
\* start price is the interpolated price when the refinement has one, else
\* the start price of the period; the end price is the one of the period,
\* start_price * (1 + return_pct / 100)
LegacyReturnAsClaimed(stock) ==
    LET hist_data == history.pick.period.data[PeriodIndex(history.pick.period,
                                                           stock.ticker)]
        interpolated ==
            IF history.pick.refine
            THEN InterpolatePrice(stock.ticker, <<profile.start_year.val, 1, 1>>,
                                  history.pick.before, history.pick.after)
            ELSE None
        start == IF interpolated.some THEN interpolated.val ELSE hist_data.start_price
        end100 == hist_data.start_price * (100 + hist_data.return_pct)
    IN  IF start <= 0 THEN stock.historical_return = None
        ELSE stock.historical_return = Some((end100 - 100 * start) \div start)

\* The stocks of the legacy path: data in the period that was matched
OnLegacyPath(stock) ==
    /\ ~MonthlyHit(monthly_cache, stock_metadata,
                   profile.start_year.val, profile.end_year.val)
    /\ history.pick.period.some
    /\ PeriodIndex(history.pick.period, stock.ticker) # 0

\* C20: after fetch_historical_returns, on the monthly path, the legacy path
\* and the remote path, a stock whose start price is not positive has the
\* return None, and any other filled stock has (end - start) / start * 100.
C20_NonPositiveStartGivesNone ==
    pc = "fetched"
    => \A i \in 1..Len(all_stocks) :
          IF MonthlyHit(monthly_cache, stock_metadata,
                        profile.start_year.val, profile.end_year.val)
          THEN MonthlyReturnAsClaimed(all_stocks[i])
          ELSE IF OnLegacyPath(all_stocks[i])
          THEN LegacyReturnAsClaimed(all_stocks[i])
          ELSE LegacyHit(stock_metadata, history.pick)
               \/ RemoteReturnAsClaimed(all_stocks[i])

\* C20 without the legacy path: the monthly series and the remote service
C20_MonthlyAndRemote ==
    pc = "fetched"
    => \A i \in 1..Len(all_stocks) :
          IF MonthlyHit(monthly_cache, stock_metadata,
                        profile.start_year.val, profile.end_year.val)
          THEN MonthlyReturnAsClaimed(all_stocks[i])
          ELSE OnLegacyPath(all_stocks[i])
               \/ LegacyHit(stock_metadata, history.pick)
               \/ RemoteReturnAsClaimed(all_stocks[i])

-----------------------------------------------------------------------------
(* Properties of the cycle's derived fields                                *)

\* The reference data of a stock: the derived fields put aside
ReferenceFields(stock) ==
    [stock EXCEPT !.historical_return = None, !.historical_start_price = None]

\* The cycle has an investment window
HasWindow == profile.start_year.some /\ profile.end_year.some

\* The derived fields of a stock are those of the running cycle's window: None
\* without a window; from the monthly series at the ends of the window when
\* the monthly path has a hit; else from an answer of the remote service, or
\* None.  (The snapshots of Spec carry no period table.)
DerivedFromWindow(stock) ==
    IF ~HasWindow
    THEN stock.historical_return = None /\ stock.historical_start_price = None
    ELSE IF MonthlyHit(monthly_cache, stock_metadata,
                       profile.start_year.val, profile.end_year.val)
    THEN LET sp == GetMonthlyPrice(monthly_cache, stock.ticker,
                                   profile.start_year.val, 1, 1)
             ep == GetMonthlyPrice(monthly_cache, stock.ticker,
                                   profile.end_year.val, 12, 31)
         IN  IF sp.some /\ ep.some /\ sp.val > 0
             THEN /\ stock.historical_return = Some(ReturnPct(sp.val, ep.val))
                  /\ stock.historical_start_price = Some(sp.val)
             ELSE /\ stock.historical_return = None
                  /\ stock.historical_start_price = None
    ELSE \/ stock.historical_return = None /\ stock.historical_start_price = None
         \/ \E q \in ApiQuotes :
               /\ q.some /\ q.val[1] > 0
               /\ stock.historical_return = Some(ReturnPct(q.val[1], q.val[2]))
               /\ stock.historical_start_price = Some(q.val[1])

\* What the filter and the allocation engine see in a cycle
C21_DerivedFieldsOfTheCycle ==
    /\ \A i \in 1..Len(stock_metadata) :
          stock_metadata[i] = ReferenceFields(stock_metadata[i])
    /\ pc \in {"filter", "predict", "build", "validate", "submit"}
       => /\ Len(all_stocks) = Len(stock_metadata)
          /\ \A i \in 1..Len(all_stocks) :
                /\ ReferenceFields(all_stocks[i]) = stock_metadata[i]
                /\ DerivedFromWindow(all_stocks[i])
    /\ pc \in {"predict", "build", "validate", "submit"}
       => \A i \in 1..Len(eligible_stocks) :
             \E k \in 1..Len(all_stocks) : eligible_stocks[i] = all_stocks[k]

\* C21: the derived fields the filter and the allocation engine see in a
\* cycle are computed in that cycle from that cycle's window, or are absent;
\* no value of an earlier cycle is seen in a later one, and no step of a cycle
\* changes the loaded reference securities.
C21_DerivedFieldsAreCycleScoped ==
    /\ []C21_DerivedFieldsOfTheCycle
    /\ [][stock_metadata' = stock_metadata]_vars

\* C21, its case: a cycle that follows a rejected submission ranks by the
\* returns of its own window, 2019 to 2020.
C21_Witness ==
    /\ pc = "build"
    /\ named # {}
    /\ profile.start_year = Some(2019)
    /\ profile.end_year = Some(2020)
    /\ \E i \in 1..Len(eligible_stocks) : eligible_stocks[i].historical_return.some

-----------------------------------------------------------------------------
(* SpecFilter: filter_stocks_by_profile called on its own, on generated    *)
(* stocks whose volatility lies on and around the ceilings of the tiers.   *)

FilterTickers == << <<"V","A">>, <<"V","B">> >>

\* <<volatility, sectors, market capitalisation>> of a generated stock
FilterKinds ==
    { <<v, x, c>> : v \in {29, 30, 49, 50, 80, 120},
                    x \in { {"energy"}, {"software"} },
                    c \in {1, 50} }

\* The universes of two generated stocks
FilterUniverses ==
    { [i \in 1..2 |-> Stk(FilterTickers[i], 50, f[i][1], f[i][2], f[i][3], Some(1990))] :
      f \in [1..2 -> FilterKinds] }

\* The profiles of the call
FilterProfiles ==
    { [some |-> TRUE, budget |-> 500, risk_tolerance |-> r,
       start_year |-> w[1], end_year |-> w[2], excluded_sectors |-> x] :
      r \in RiskLevels,
      w \in { <<None, None>>, <<Some(2019), Some(2020)>> },
      x \in { {}, {"technology"} } }

InitFilter ==
    /\ pc = "call_filter"
    /\ stock_metadata = <<>>
    /\ monthly_cache = [some |-> FALSE, periods |-> NoPeriods, entries |-> <<>>]
    /\ attempt = 1
    /\ profile \in FilterProfiles
    /\ all_stocks \in FilterUniverses
    /\ eligible_stocks = <<>>
    /\ portfolio = <<>>
    /\ cleaned = <<>>
    /\ posts = 0
    /\ send_result = NoResult
    /\ rejected = {}
    /\ trace = ""
    /\ exit_error = ""
    /\ named = {}
    /\ files = NoFiles
    /\ ps = EmptyStore
    /\ now = 0
    /\ history = NoHistory

\* filter_stocks_by_profile(&all_stocks, &profile)
CallFilterStocksByProfile ==
    /\ pc = "call_filter"
    /\ eligible_stocks' = FilterStocksByProfile(all_stocks, profile)
    /\ pc' = "filtered"
    /\ UNCHANGED <<stock_metadata, monthly_cache, attempt, profile, all_stocks,
                   portfolio, cleaned, posts, send_result, rejected,
                   trace, exit_error, named, points_vars>>

NextFilter == CallFilterStocksByProfile

SpecFilter == InitFilter /\ [][NextFilter]_vars

\* The stages of the filter other than the risk tier
PassesOtherStages(stock, prof) ==
    /\ ~IsTickerExcluded(stock.ticker)
    /\ ~SectorExcluded(stock, prof)
    /\ WasTradingDuringPeriod(stock, prof.start_year)
    /\ ~IsDotcomBubbleRisky(stock)
    /\ (prof.end_year.some /\ prof.end_year.val \in 2020..2021
           => ~IsCovidVulnerable(stock))

\* C22: every stock filter_stocks_by_profile returns has a volatility < 0.03
\* under the conservative tier and < 0.05 under the moderate tier; under the
\* aggressive tier no stock is dropped for its volatility by the tier.
C22_VolatilityCeiling ==
    pc = "filtered" =>
        /\ \A i \in 1..Len(eligible_stocks) :
              /\ profile.risk_tolerance = "Conservative"
                    => eligible_stocks[i].volatility < 30
              /\ profile.risk_tolerance = "Moderate"
                    => eligible_stocks[i].volatility < 50
        /\ profile.risk_tolerance = "Aggressive"
              => \A k \in 1..Len(all_stocks) :
                    PassesOtherStages(all_stocks[k], profile)
                    => \E i \in 1..Len(eligible_stocks) :
                          eligible_stocks[i] = all_stocks[k]

\* C22, its case: under the conservative tier a stock of volatility 0.03 that
\* passes every other stage is dropped next to one of 0.029 that is kept.
C22_Witness ==
    /\ pc = "filtered"
    /\ profile.risk_tolerance = "Conservative"
    /\ Len(eligible_stocks) = 1
    /\ eligible_stocks[1].volatility = 29
    /\ \E k \in 1..Len(all_stocks) :
          /\ all_stocks[k].volatility = 30
          /\ PassesOtherStages(all_stocks[k], profile)

-----------------------------------------------------------------------------
(* SpecGreedy: build_greedy_portfolio turn by turn.  history holds the      *)
(* affordable stocks, the state of the allocation and the index of the     *)
(* first pass.                                                             *)

\* <<price, start price, return>> of the stocks of the call: a free one, one
\* with a negative price, cheap ones, two winners, a loser and a dear one
GreedyKinds ==
    { <<0, None, None>>, <<-5, None, None>>, <<3, None, None>>, <<7, Some(7), Some(0)>>,
      <<45, Some(30), Some(50)>>, <<120, Some(100), Some(20)>>,
      <<40, Some(42), Some(-5)>>, <<600, Some(500), Some(20)>> }

\* The universes of at most three stocks
GreedyUniverses ==
    UNION { { [i \in 1..n |-> KindStock(i, f[i])] : f \in [1..n -> GreedyKinds] } :
            n \in 0..3 }

\* The budgets of the call: build_portfolio passes a budget > 0
GreedyBudgets == {1, 20, 500}

InitGreedy ==
    /\ pc = "call_greedy"
    /\ stock_metadata = <<>>
    /\ monthly_cache = [some |-> FALSE, periods |-> NoPeriods, entries |-> <<>>]
    /\ attempt = 1
    /\ \E b \in GreedyBudgets : profile = [NoProfile EXCEPT !.some = TRUE, !.budget = b]
    /\ all_stocks = <<>>
    /\ eligible_stocks \in GreedyUniverses
    /\ portfolio = <<>>
    /\ cleaned = <<>>
    /\ posts = 0
    /\ send_result = NoResult
    /\ rejected = {}
    /\ trace = ""
    /\ exit_error = ""
    /\ named = {}
    /\ files = NoFiles
    /\ ps = EmptyStore
    /\ now = 0
    /\ history = [aff |-> <<>>, st |-> GreedyStart(<<>>, 0), i |-> 1]

\* build_greedy_portfolio up to the first pass: the affordable stocks, and the
\* return when there is none
GreedyEnter ==
    /\ pc = "call_greedy"
    /\ LET aff == GreedyAffordable(eligible_stocks, profile.budget)
       IN  /\ history' = [aff |-> aff, st |-> GreedyStart(aff, profile.budget), i |-> 1]
           /\ IF aff = <<>> THEN pc' = "greedy_done" ELSE pc' = "first_pass"
    /\ UNCHANGED <<cycle_vars, files, ps, now>>

\* One turn of the first pass
GreedyFirstTurn ==
    /\ pc = "first_pass"
    /\ LET r == GreedyFirstPassTurn(history.aff, history.i, history.st)
       IN  /\ history' = [history EXCEPT !.st = r.st, !.i = history.i + 1]
           /\ IF r.break \/ history.i = Len(history.aff)
              THEN pc' = "second_pass" ELSE pc' = "first_pass"
    /\ UNCHANGED <<cycle_vars, files, ps, now>>

\* One turn of the second pass
GreedySecondTurn ==
    /\ pc = "second_pass"
    /\ GreedyRunning(history.st)
    /\ history' = [history EXCEPT !.st = GreedyTurn(history.aff, history.st)]
    /\ UNCHANGED <<pc, cycle_vars, files, ps, now>>

\* The second pass has ended: the positions bought, the last budget check
GreedyReturn ==
    /\ pc = "second_pass"
    /\ ~GreedyRunning(history.st)
    /\ portfolio' = BuildGreedyPortfolio(eligible_stocks, profile.budget)
    /\ pc' = "greedy_done"
    /\ UNCHANGED <<stock_metadata, monthly_cache, attempt, profile, all_stocks,
                   eligible_stocks, cleaned, posts, send_result, rejected,
                   trace, exit_error, named, points_vars>>

NextGreedy ==
    \/ GreedyEnter
    \/ GreedyFirstTurn
    \/ GreedySecondTurn
    \/ GreedyReturn

SpecGreedy == InitGreedy /\ [][NextGreedy]_vars

\* The turn-by-turn run ends in the state GreedyFill computes
GreedyRunIsGreedyFill ==
    (pc = "greedy_done" /\ history.aff # <<>>)
        => history.st = GreedyFill(history.aff, profile.budget)

\* The running remaining budget is never negative and the counter of the
\* round robin never passes max_iterations
C23_GreedyWithinBounds ==
    (profile.budget > 0 /\ history.aff # <<>>)
        => /\ history.st.remaining_budget >= 0
           /\ history.st.safety_counter <= MAX_ITERATIONS
           /\ pc = "greedy_done" => ~GreedyRunning(history.st)

\* C23: for a budget > 0 and a non-empty set of affordable stocks, the round
\* robin of build_greedy_portfolio ends within max_iterations (10000) turns,
\* every turn counting up, and the running remaining budget is never negative.
C23_GreedyTerminatesNonNegative ==
    /\ []C23_GreedyWithinBounds
    /\ [][(pc = "second_pass" /\ pc' = "second_pass")
            => history'.st.safety_counter > history.st.safety_counter]_vars

\* C23, its case: the round robin bought shares, ran out of anything it could
\* buy with money left, and turned idle up to the limit.
C23_Witness ==
    /\ pc = "greedy_done"
    /\ history.aff # <<>>
    /\ history.st.safety_counter = MAX_ITERATIONS
    /\ history.st.remaining_budget > 0
    /\ \E i \in 1..Len(history.aff) : history.st.shares[i] > 1

-----------------------------------------------------------------------------
(* Properties of the small-budget path of build_portfolio                  *)

\* build_portfolio takes the greedy path: 0 < budget, alloc_budget < 5000
SmallBudgetPath ==
    /\ pc = "built"
    /\ eligible_stocks # <<>>
    /\ profile.budget > 0
    /\ profile.budget * BUDGET_SPEND_PCT < 100 * 5000

\* The candidates of the greedy fill: affordable, no negative return, at most
\* the MAX_POSITIONS cheapest, cheapest first
GreedyCandidates == GreedyAffordable(SortedStocks(eligible_stocks), profile.budget)

\* The budget covers one share of each candidate
CoversOneShareOfEach ==
    SumSeq([i \in 1..Len(GreedyCandidates) |-> GreedyCandidates[i].price])
        <= profile.budget

\* The shares of ticker t in the allocation
QtyOf(p, t) == SumSeq([i \in 1..Len(p) |-> IF p[i].ticker = t THEN p[i].qty ELSE 0])

\* The extra shares went round robin, cheapest first: a candidate never holds
\* fewer shares than a dearer one
RoundRobinOrder ==
    \A i, j \in 1..Len(GreedyCandidates) :
        (i < j /\ GreedyCandidates[i].price > 0)
        => QtyOf(portfolio, GreedyCandidates[i].ticker)
              >= QtyOf(portfolio, GreedyCandidates[j].ticker)

-----------------------------------------------------------------------------
(* SpecRank: the ranking of build_portfolio called on its own              *)

RankTickers == << <<"R","A">>, <<"R","B">>, <<"R","C">> >>

\* <<return, volatility>> of the stocks to rank
RankKinds ==
    { <<r, v>> : r \in {None, Some(-5), Some(0), Some(33)}, v \in {10, 20} }

\* The sequences of at most three stocks, in every order of return and volatility
RankUniverses ==
    UNION { { [i \in 1..n |->
                 [Stk(RankTickers[i], 50, f[i][2], {"energy"}, 50, Some(1990))
                    EXCEPT !.historical_return = f[i][1],
                           !.historical_start_price =
                               IF f[i][1].some THEN Some(40) ELSE None]] :
              f \in [1..n -> RankKinds] } :
            n \in 0..3 }

InitRank ==
    /\ pc = "call_rank"
    /\ stock_metadata = <<>>
    /\ monthly_cache = [some |-> FALSE, periods |-> NoPeriods, entries |-> <<>>]
    /\ attempt = 1
    /\ profile = [NoProfile EXCEPT !.some = TRUE, !.budget = 500]
    /\ all_stocks = <<>>
    /\ eligible_stocks \in RankUniverses
    /\ portfolio = <<>>
    /\ cleaned = <<>>
    /\ posts = 0
    /\ send_result = NoResult
    /\ rejected = {}
    /\ trace = ""
    /\ exit_error = ""
    /\ named = {}
    /\ files = NoFiles
    /\ ps = EmptyStore
    /\ now = 0
    /\ history = <<>>

\* sorted_stocks of build_portfolio: the sort and the retain; history holds it
RankStocks ==
    /\ pc = "call_rank"
    /\ history' = SortedStocks(eligible_stocks)
    /\ pc' = "ranked"
    /\ UNCHANGED <<cycle_vars, files, ps, now>>

NextRank == RankStocks

SpecRank == InitRank /\ [][NextRank]_vars

\* The ranking is by return, highest first, and a stock without a return
\* stands behind every stock with one
RankedByReturn(sorted) ==
    \A i, j \in 1..Len(sorted) :
        i < j =>
           /\ (sorted[i].historical_return.some /\ sorted[j].historical_return.some)
                 => sorted[i].historical_return.val >= sorted[j].historical_return.val
           /\ ~(~sorted[i].historical_return.some /\ sorted[j].historical_return.some)

\* C25: the ranking is by historical return, highest first; a stock without a
\* return stands behind every stock with one; of two stocks with the same
\* return the one with the lower volatility stands first.
C25_TiesByAscendingVolatility ==
    pc = "ranked" =>
        /\ RankedByReturn(history)
        /\ \A i, j \in 1..Len(history) :
              (/\ i < j
               /\ history[i].historical_return.some
               /\ history[j].historical_return.some
               /\ history[i].historical_return.val = history[j].historical_return.val)
              => history[i].volatility <= history[j].volatility

\* What the ranking does keep: the order by return, ascending volatility among
\* the stocks without a return, and the order of the input among stocks of
\* the same return
C25_RankedAsSorted ==
    pc = "ranked" =>
        /\ RankedByReturn(history)
        /\ \A i, j \in 1..Len(history) :
              (i < j /\ ~history[i].historical_return.some
                     /\ ~history[j].historical_return.some)
              => history[i].volatility <= history[j].volatility
        /\ \A i, j \in 1..Len(history) :
              (/\ i < j
               /\ history[i].historical_return.some
               /\ history[i].historical_return = history[j].historical_return)
              => FindStock(eligible_stocks, history[i].ticker)
                    < FindStock(eligible_stocks, history[j].ticker)

-----------------------------------------------------------------------------
(* Properties of the spend fraction and the concentrated mode              *)

\* build_portfolio takes the weighted path: alloc_budget >= 5000
LargeBudgetPath ==
    /\ pc = "built"
    /\ eligible_stocks # <<>>
    /\ profile.budget > 0
    /\ profile.budget * BUDGET_SPEND_PCT >= 100 * 5000

\* The positions and the cost of the concentrated loop of the call
ConcentratedPhase ==
    ConcentratedFill(SortedStocks(eligible_stocks),
                     profile.budget * BUDGET_SPEND_PCT,
                     TargetPositions(profile.risk_tolerance))

RankedTop ==
    Take(SortedStocks(eligible_stocks),
         Min(Min(TargetPositions(profile.risk_tolerance),
                 Len(SortedStocks(eligible_stocks))), MAX_POSITIONS))

\* The cost the positions hold at the ranks before rank i
AllocatedBefore(p, i) ==
    SumSeq([k \in 1..(i - 1) |-> QtyOf(p, RankedTop[k].ticker) * RankedTop[k].price])

\* min(RANK_QUANTITIES[i], floor((effective budget - allocated) / price))
TargetOrAffordable(p, i) ==
    Min(RANK_QUANTITIES[i],
        (profile.budget * BUDGET_SPEND_PCT - 100 * AllocatedBefore(p, i))
            \div (100 * RankedTop[i].price))

\* C27: in concentrated mode, before the leftover deployment, the position at
\* rank i with a price > 0 holds min(RANK_QUANTITIES[i], floor((effective
\* budget - cost already allocated) / price)) shares and is left out only when
\* this count is 0; the cost of the phase is at most the effective budget.
C27_RankQuantityOrAffordable ==
    (LargeBudgetPath /\ UniqueTickers(eligible_stocks))
        => LET p == ConcentratedPhase.p
           IN  /\ \A i \in 1..Len(RankedTop) :
                     RankedTop[i].price > 0
                     => /\ QtyOf(p, RankedTop[i].ticker) = TargetOrAffordable(p, i)
                        /\ (\E k \in 1..Len(p) : p[k].ticker = RankedTop[i].ticker)
                              <=> TargetOrAffordable(p, i) > 0
               /\ \A k \in 1..Len(p) :
                     \E i \in 1..Len(RankedTop) :
                        p[k].ticker = RankedTop[i].ticker /\ RankedTop[i].price > 0
               /\ ConcentratedPhase.allocated = CostAtCurrentPrices(p, eligible_stocks)
               /\ 100 * ConcentratedPhase.allocated
                     <= profile.budget * BUDGET_SPEND_PCT

\* C27, its case: one rank holds its full target, a later one is reduced to
\* what the rest of the effective budget buys, and one is left out.
C27_Witness ==
    /\ LargeBudgetPath /\ UniqueTickers(eligible_stocks)
    /\ LET p == ConcentratedPhase.p
       IN  \E i, j, k \in 1..Len(RankedTop) :
              /\ i < j
              /\ QtyOf(p, RankedTop[i].ticker) = RANK_QUANTITIES[i]
              /\ QtyOf(p, RankedTop[j].ticker) > 0
              /\ QtyOf(p, RankedTop[j].ticker) < RANK_QUANTITIES[j]
              /\ RankedTop[k].price > 0
              /\ QtyOf(p, RankedTop[k].ticker) = 0

-----------------------------------------------------------------------------
(* SpecRepair: the two budget-repair loops turn by turn, force_within_budget *)
(* on portfolio and the reduction loop of pre_submit_validate on history.st. *)
(* history.input is the allocation the loop began with, history.steps the   *)
(* turns taken.                                                             *)

\* The allocations force_within_budget is given: quantities > 0 (the
\* constructions of build_portfolio push no other), any ticker
ForceAllocations ==
    { a \in Allocations : \A i \in 1..Len(a) : a[i].qty > 0 }

NoReduction == [cleaned |-> <<>>, total |-> 0, idx |-> 0]

InitRepair ==
    /\ pc \in {"forcing", "call_reduce"}
    /\ stock_metadata = <<>>
    /\ monthly_cache = [some |-> FALSE, periods |-> NoPeriods, entries |-> <<>>]
    /\ attempt = 1
    /\ \E b \in ValidatorBudgets : profile = [NoProfile EXCEPT !.some = TRUE, !.budget = b]
    /\ all_stocks = <<>>
    /\ eligible_stocks = ValidatorEligible
    /\ portfolio \in (IF pc = "forcing" THEN ForceAllocations ELSE Allocations)
    /\ cleaned = <<>>
    /\ posts = 0
    /\ send_result = NoResult
    /\ rejected \in (IF pc = "forcing" THEN {{}} ELSE RejectedFiles)
    /\ trace = ""
    /\ exit_error = ""
    /\ named = {}
    /\ files = NoFiles
    /\ ps = EmptyStore
    /\ now = 0
    /\ history = [input |-> portfolio, steps |-> 0, st |-> NoReduction]

\* One turn of the loop of force_within_budget
ForceTurn ==
    /\ pc = "forcing"
    /\ ForceRunning(portfolio, eligible_stocks, profile.budget)
    /\ portfolio' = ForceStep(portfolio, eligible_stocks, profile.budget)
    /\ history' = [history EXCEPT !.steps = history.steps + 1]
    /\ UNCHANGED <<pc, stock_metadata, monthly_cache, attempt, profile, all_stocks,
                   eligible_stocks, cleaned, posts, send_result, rejected,
                   trace, exit_error, named, files, ps, now>>

\* The loop of force_within_budget has ended
ForceReturn ==
    /\ pc = "forcing"
    /\ ~ForceRunning(portfolio, eligible_stocks, profile.budget)
    /\ pc' = "forced"
    /\ UNCHANGED <<cycle_vars, points_vars>>

\* pre_submit_validate up to its loop: the removals, the total, the early
\* return and the sort by price
ReduceEnter ==
    /\ pc = "call_reduce"
    /\ LET c     == ValidatorClean(portfolio, eligible_stocks,
                                   LoadRejectedTickers(rejected))
           total == ValidatorTotal(c, eligible_stocks)
           dearer(a, b) == PriceMapGet(eligible_stocks, a.ticker)
                              > PriceMapGet(eligible_stocks, b.ticker)
       IN  IF ~OverSafeBudget(total, profile.budget)
           THEN /\ cleaned' = c
                /\ pc' = "reduced"
                /\ history' = [history EXCEPT !.input = c]
           ELSE /\ cleaned' = cleaned
                /\ pc' = "reducing"
                /\ history' = [history EXCEPT
                                  !.input = SortBy(c, dearer),
                                  !.st = [cleaned |-> SortBy(c, dearer),
                                          total |-> total, idx |-> 0]]
    /\ UNCHANGED <<stock_metadata, monthly_cache, attempt, profile, all_stocks,
                   eligible_stocks, portfolio, posts, send_result, rejected,
                   trace, exit_error, named, files, ps, now>>

\* One turn of the reduction loop
ReduceTurn ==
    /\ pc = "reducing"
    /\ ReduceRunning(history.st, profile.budget)
    /\ history' = [history EXCEPT
                      !.st = ReduceStep(history.st, eligible_stocks, profile.budget),
                      !.steps = history.steps + 1]
    /\ UNCHANGED <<pc, cycle_vars, files, ps, now>>

\* The reduction loop has ended
ReduceReturn ==
    /\ pc = "reducing"
    /\ ~ReduceRunning(history.st, profile.budget)
    /\ cleaned' = history.st.cleaned
    /\ pc' = "reduced"
    /\ UNCHANGED <<stock_metadata, monthly_cache, attempt, profile, all_stocks,
                   eligible_stocks, portfolio, posts, send_result, rejected,
                   trace, exit_error, named, points_vars>>

NextRepair ==
    \/ ForceTurn
    \/ ForceReturn
    \/ ReduceEnter
    \/ ReduceTurn
    \/ ReduceReturn

SpecRepair == InitRepair /\ [][NextRepair]_vars

\* The turn-by-turn runs end where the functions of the model end
RepairRunsAsComputed ==
    /\ pc = "forced"
          => portfolio = ForceWithinBudget(history.input, eligible_stocks, profile.budget)
    /\ pc = "reduced"
          => cleaned = PreSubmitValidate(portfolio, eligible_stocks, profile.budget,
                                         LoadRejectedTickers(rejected))

\* The shares of an allocation
SharesOf(p) == SumSeq([i \in 1..Len(p) |-> p[i].qty])

\* q is p with one share taken from a position of the largest share count,
\* the position deleted when it is left with none
OneShareOffALargest(p, q) ==
    \E idx \in 1..Len(p) :
        /\ \A j \in 1..Len(p) : p[j].qty <= p[idx].qty
        /\ q = IF p[idx].qty = 1 THEN RemoveAt(p, idx)
               ELSE [p EXCEPT ![idx].qty = p[idx].qty - 1]

\* The pass of force_within_budget ends at the first allocation within the
\* budget (or empty), and leaves an allocation within the budget as it was
C28_StopsAtFirstWithinBudget ==
    /\ pc = "forced"
          => ~ForceRunning(portfolio, eligible_stocks, profile.budget)
    /\ (pc \in {"forcing", "forced"}
          /\ CalculatePortfolioCost(history.input, eligible_stocks) <= profile.budget)
          => portfolio = history.input

\* C28: every step of force_within_budget takes exactly one share from a
\* position whose share count is the largest at that moment, deleting the
\* position when it reaches 0; a step is taken only from an allocation over
\* the budget, so the pass stops at the first allocation within the budget and
\* an allocation within the budget is returned unchanged.
C28_OneShareFromLargest ==
    /\ []C28_StopsAtFirstWithinBudget
    /\ [][(pc = "forcing" /\ portfolio' # portfolio)
            => /\ CalculatePortfolioCost(portfolio, eligible_stocks) > profile.budget
               /\ OneShareOffALargest(portfolio, portfolio')]_vars
    /\ [][(pc = "forcing" /\ pc' = "forcing") => portfolio' # portfolio]_vars

\* C28, its case: the pass took a share from the larger of two positions and
\* deleted a position that came down to 0, and ended within the budget with a
\* position left.
C28_Witness ==
    /\ pc = "forced"
    /\ Len(history.input) = 2
    /\ history.input[1].qty # history.input[2].qty
    /\ Len(portfolio) = 1
    /\ history.steps >= 3
    /\ CalculatePortfolioCost(portfolio, eligible_stocks) <= profile.budget

\* The bound of C30 on the turns of either loop, and a loop that still runs
\* has not used it up
C30_StepsWithinSharesPlusPositions ==
    /\ history.steps <= SharesOf(history.input) + Len(history.input)
    /\ (pc = "forcing" /\ ForceRunning(portfolio, eligible_stocks, profile.budget))
          => history.steps < SharesOf(history.input) + Len(history.input)
    /\ (pc = "reducing" /\ ReduceRunning(history.st, profile.budget))
          => history.steps < SharesOf(history.input) + Len(history.input)

\* C30: force_within_budget (budget > 0) and the reduction loop of the
\* validator end after at most as many turns as the allocation they begin
\* with has shares plus positions, also with prices <= 0 and tickers without
\* a price; every turn counts.
C30_RepairLoopsTerminate ==
    /\ []C30_StepsWithinSharesPlusPositions
    /\ [][(pc' = pc /\ pc \in {"forcing", "reducing"})
            => history'.steps = history.steps + 1]_vars

\* C30, its cases: force_within_budget emptied an allocation that holds a
\* ticker without a price and a position at a negative price; the reduction
\* loop removed a position at a price <= 0 on its way.
C30_Witness ==
    \/ /\ pc = "forced"
       /\ portfolio = <<>>
       /\ history.steps = SharesOf(history.input)
       /\ \E i \in 1..Len(history.input) : history.input[i].ticker = <<"N">>
    \/ /\ pc = "reduced"
       /\ history.steps >= 2
       /\ \E i \in 1..Len(history.input) :
             PriceMapGet(eligible_stocks, history.input[i].ticker) <= 0

-----------------------------------------------------------------------------
(* SpecBuildSteps: build_portfolio step by step, the construction first,  *)
(* then the trim or the last check.                                        *)

\* "if stocks.is_empty() { return Vec::new() }", "if budget <= 0.0 { .. }"
BuildEarlyReturn ==
    /\ pc = "call_build"
    /\ eligible_stocks = <<>> \/ profile.budget <= 0
    /\ portfolio' = <<>>
    /\ pc' = "built"
    /\ UNCHANGED <<stock_metadata, monthly_cache, attempt, profile, all_stocks,
                   eligible_stocks, cleaned, posts, send_result, rejected,
                   trace, exit_error, named, points_vars>>

\* The greedy or the weighted construction
BuildConstruct ==
    /\ pc = "call_build"
    /\ eligible_stocks # <<>>
    /\ profile.budget > 0
    /\ portfolio' = ConstructPortfolio(eligible_stocks, profile.budget,
                                       profile.risk_tolerance)
    /\ pc' = "constructed"
    /\ UNCHANGED <<stock_metadata, monthly_cache, attempt, profile, all_stocks,
                   eligible_stocks, cleaned, posts, send_result, rejected,
                   trace, exit_error, named, points_vars>>

\* The defensive trim and its return
BuildTrim ==
    /\ pc = "constructed"
    /\ Len(portfolio) > MAX_POSITIONS
    /\ portfolio' = TrimToMaxPositions(portfolio, eligible_stocks, profile.budget)
    /\ pc' = "built"
    /\ UNCHANGED <<stock_metadata, monthly_cache, attempt, profile, all_stocks,
                   eligible_stocks, cleaned, posts, send_result, rejected,
                   trace, exit_error, named, points_vars>>

\* The last check and the return
BuildFinalCheck ==
    /\ pc = "constructed"
    /\ Len(portfolio) <= MAX_POSITIONS
    /\ portfolio' = FinalSafetyCheck(portfolio, eligible_stocks, profile.budget)
    /\ pc' = "built"
    /\ UNCHANGED <<stock_metadata, monthly_cache, attempt, profile, all_stocks,
                   eligible_stocks, cleaned, posts, send_result, rejected,
                   trace, exit_error, named, points_vars>>

NextBuildSteps ==
    \/ BuildEarlyReturn
    \/ BuildConstruct
    \/ BuildTrim
    \/ BuildFinalCheck

SpecBuildSteps == InitBuild /\ [][NextBuildSteps]_vars

\* The steps end where build_portfolio of the model ends
BuildStepsAsComputed ==
    pc = "built" => portfolio = BuildPortfolio(eligible_stocks, profile.budget,
                                               profile.risk_tolerance)

\* The allocation the construction hands back costs at most the budget
ConstructedWithinBudget ==
    (pc = "constructed" /\ UniqueTickers(eligible_stocks))
    => CalculatePortfolioCost(portfolio, eligible_stocks) <= profile.budget

\* C29: for a universe of unique tickers and a budget > 0 the allocation that
\* the greedy or the weighted construction hands back to build_portfolio
\* costs at most the budget, so the last check of build_portfolio finds
\* nothing to repair and returns that allocation as it is.
C29_FinalCheckNeverFires ==
    /\ []ConstructedWithinBudget
    /\ [][(pc = "constructed" /\ Len(portfolio) <= MAX_POSITIONS
             /\ UniqueTickers(eligible_stocks))
            => portfolio' = portfolio]_vars

\* C29, its case: an allocation of two or more positions reached the last
\* check with less than the price of its cheapest share left of the budget.
C29_Witness ==
    /\ pc = "constructed"
    /\ profile.budget > 0
    /\ UniqueTickers(eligible_stocks)
    /\ Len(portfolio) >= 2
    /\ Len(portfolio) <= MAX_POSITIONS
    /\ \A i \in 1..Len(portfolio) :
          PriceMapGet(eligible_stocks, portfolio[i].ticker)
             > profile.budget - CalculatePortfolioCost(portfolio, eligible_stocks)

====
